---- MODULE Spec2Model ----
(***************************************************************************)
(* Verification model of the spreadsheet preprocessing and display-time    *)
(* evaluation core of qc-task-support-program:                             *)
(*   src/src/utils.py            column lookup, data-region detection      *)
(*   src/src/excel_processor.py  preprocessing pipeline                    *)
(*   src/src/gui/models.py       ExcelSheetModel (grid, undo/redo, eval)   *)
(*   src/src/gui/excel_filter.py ExcelFilterProxyModel (row filter)        *)
(***************************************************************************)
EXTENDS Integers, Sequences, FiniteSets, TLC

VARIABLES
    ws,            \* the openpyxl worksheet the grid model / the pipeline works on
    dirty,         \* ExcelSheetModel.dirty: (row, col) -> value
    edit_all,      \* ExcelSheetModel.edit_all
    editable_cols, \* ExcelSheetModel.editable_cols
    merge_top_left,\* ExcelSheetModel._merge_top_left: (r, c) -> (top_r, top_c)
    undo_stack,    \* ExcelSheetModel._undo_stack
    redo_stack,    \* ExcelSheetModel._redo_stack
    col_allowed,   \* ExcelFilterProxyModel._col_allowed: col -> allowed display texts
    lastCall,      \* the most recent call on the grid model and what it returned
    nEdits,        \* number of setData calls made on the grid model so far
    onlyEdits,     \* TRUE while nothing but setData has been called on the model
    page           \* MainPageWidget: its workbooks, flags, model and worker threads

gridVars == <<ws, dirty, edit_all, editable_cols, merge_top_left, undo_stack,
              redo_stack, col_allowed, lastCall, nEdits, onlyEdits>>

vars == <<gridVars, page>>

----------------------------------------------------------------------------
(* Cell values.  A value is a record [k, n, s]: k the Python type, n the   *)
(* number (for k = "num"), s the text as a sequence of tokens (k = "str"). *)
(* A token is a record [t, a, l]: a word or symbol t, a run of digits with *)
(* value a, or a cell address with row a and column letters l (A = 1).     *)

None == [k |-> "none", n |-> 0, s |-> <<>>]
Num(n) == [k |-> "num", n |-> n, s |-> <<>>]
Str(toks) == [k |-> "str", n |-> 0, s |-> toks]

W(word) == [t |-> word, a |-> 0, l |-> <<>>]
Dig(n) == [t |-> "digits", a |-> n, l |-> <<>>]
DigC(n) == [t |-> "digits,", a |-> n, l |-> <<>>]
Ref(letters, row) == [t |-> "ref", a |-> row, l |-> letters]

IsSpace(tok) == tok.t = " "

RECURSIVE lstrip(_)
lstrip(toks) ==
    IF toks # <<>> /\ IsSpace(Head(toks)) THEN lstrip(Tail(toks)) ELSE toks

RECURSIVE rstrip(_)
rstrip(toks) ==
    IF toks # <<>> /\ IsSpace(toks[Len(toks)])
    THEN rstrip(SubSeq(toks, 1, Len(toks) - 1)) ELSE toks

\* str.strip()
strip(toks) == rstrip(lstrip(toks))

Max(a, b) == IF a >= b THEN a ELSE b
Min(a, b) == IF a <= b THEN a ELSE b

\* the empty dict
EmptyMap == [x \in {} |-> None]

\* f overridden by g wherever g is defined (dict.update)
Override(f, g) ==
    [x \in DOMAIN f \cup DOMAIN g |-> IF x \in DOMAIN g THEN g[x] ELSE f[x]]

\* f without key x (del d[x])
Without(f, x) == [y \in DOMAIN f \ {x} |-> f[y]]

----------------------------------------------------------------------------
(* The worksheet: w.cells maps the (row, col) of every existing cell to    *)
(* its value (a secondary cell of a merge range is a MergedCell, value     *)
(* None), w.fills is the set of highlighted cells, w.merges the list of    *)
(* merge ranges, w.max_row / w.max_col the sheet's physical boundary.      *)

Range(r1, c1, r2, c2) ==
    [min_row |-> r1, min_col |-> c1, max_row |-> r2, max_col |-> c2]

InRange(mr, r, c) ==
    mr.min_row <= r /\ r <= mr.max_row /\ mr.min_col <= c /\ c <= mr.max_col

RangeCells(mr) == (mr.min_row .. mr.max_row) \X (mr.min_col .. mr.max_col)

\* ws.cell(row=r, column=c).value
cell_value(w, r, c) ==
    IF <<r, c>> \in DOMAIN w.cells THEN w.cells[<<r, c>>] ELSE None

----------------------------------------------------------------------------
(* MergeIndex: ExcelSheetModel._build_merge_cache and its two readers.     *)

\* a slip: bounds unpacked as (min_row, min_col, ...), not openpyxl's
\* (min_col, min_row, ...), so that the anchor's row and column are swapped
RECURSIVE build_merge_cache_swapped_bounds(_, _, _)
build_merge_cache_swapped_bounds(ranges, i, acc) ==
    IF i > Len(ranges) THEN acc
    ELSE LET mr == ranges[i]
             top == <<mr.min_col, mr.min_row>>
         IN build_merge_cache_swapped_bounds(ranges, i + 1,
                Override(acc, [x \in RangeCells(mr) |-> top]))

RECURSIVE build_merge_cache_from(_, _, _)
build_merge_cache_from(ranges, i, acc) ==
    IF i > Len(ranges) THEN acc
    ELSE LET mr == ranges[i]
             top == <<mr.min_row, mr.min_col>>
         IN build_merge_cache_from(ranges, i + 1,
                Override(acc, [x \in RangeCells(mr) |-> top]))

build_merge_cache(ranges) == build_merge_cache_from(ranges, 1, EmptyMap)

canonical_cell(mtl, r, c) ==
    IF <<r, c>> \in DOMAIN mtl THEN mtl[<<r, c>>] ELSE <<r, c>>

\* a slip: compares only the column with the anchor's
is_merged_non_topleft_column_only(mtl, r, c) ==
    <<r, c>> \in DOMAIN mtl /\ mtl[<<r, c>>][2] # c

is_merged_non_topleft(mtl, r, c) ==
    <<r, c>> \in DOMAIN mtl /\ mtl[<<r, c>>] # <<r, c>>

----------------------------------------------------------------------------
(* Address codec: ExcelSheetModel._addr_to_row_col and openpyxl's          *)
(* cell.coordinate (column number <-> column letters, A = 1 .. Z = 26).    *)

RECURSIVE letters_to_col(_, _, _)
letters_to_col(letters, i, col) ==
    IF i > Len(letters) THEN col
    ELSE letters_to_col(letters, i + 1, col * 26 + letters[i])

\* _addr_to_row_col: "B4" -> (4, 2)
addr_to_row_col(tok) == <<tok.a, letters_to_col(tok.l, 1, 0)>>

\* openpyxl get_column_letter, for columns up to ZZ
column_letters(c) ==
    IF c <= 26 THEN <<c>> ELSE <<(c - 1) \div 26, ((c - 1) % 26) + 1>>

\* ws.cell(row=r, column=c).coordinate
coordinate(r, c) == Ref(column_letters(c), r)

----------------------------------------------------------------------------
(* The regular expressions of models.py, on token sequences.  A pattern is *)
(* a sequence of element names; \s* is allowed before every element, and   *)
(* matching is case-insensitive (re.IGNORECASE).                           *)

Upper(word) ==
    CASE word = "sum" -> "SUM"
      [] word = "subtotal" -> "SUBTOTAL"
      [] OTHER -> word

\* [A-Z]{1,3}\d+
IsAddr(tok) == tok.t = "ref" /\ Len(tok.l) >= 1 /\ Len(tok.l) <= 3

ElemMatches(elem, tok) ==
    CASE elem = "REF" -> IsAddr(tok)
      [] elem = "9"   -> tok.t = "digits" /\ tok.a = 9
      [] elem = "NUM" -> tok.t = "digits"
      [] OTHER        -> Upper(tok.t) = elem

RECURSIVE skip_spaces(_, _)
skip_spaces(toks, i) ==
    IF i <= Len(toks) /\ IsSpace(toks[i]) THEN skip_spaces(toks, i + 1) ELSE i

\* Match pat[j..] at toks[i..]: [ok, caps (the REF and NUM tokens), next].
\* The first element is matched in place; \s* precedes the later ones.
RECURSIVE match_from(_, _, _, _, _)
match_from(toks, i, pat, j, caps) ==
    IF j > Len(pat) THEN [ok |-> TRUE, caps |-> caps, next |-> i]
    ELSE LET k == IF j = 1 THEN i ELSE skip_spaces(toks, i)
         IN IF k <= Len(toks) /\ ElemMatches(pat[j], toks[k])
            THEN match_from(toks, k + 1, pat, j + 1,
                     IF pat[j] \in {"REF", "NUM"}
                     THEN Append(caps, toks[k]) ELSE caps)
            ELSE [ok |-> FALSE, caps |-> <<>>, next |-> i]

NoMatch == [ok |-> FALSE, caps |-> <<>>, next |-> 0]

\* re.search: the leftmost match
re_search(pat, toks) ==
    LET hits == {i \in 1 .. Len(toks) : match_from(toks, i, pat, 1, <<>>).ok}
    IN IF hits = {} THEN NoMatch
       ELSE match_from(toks, CHOOSE i \in hits : \A h \in hits : i <= h,
                       pat, 1, <<>>)

\* re.fullmatch, for patterns that end in \s*
re_fullmatch(pat, toks) ==
    LET m == match_from(toks, 1, pat, 1, <<>>)
    IN IF m.ok /\ skip_spaces(toks, m.next) > Len(toks) THEN m ELSE NoMatch

\* "SUM(" in s.upper()  /  "SUBTOTAL(9," in s.upper()
Contains(toks, pat) ==
    \E i \in 1 .. Len(toks) :
        /\ i + Len(pat) - 1 <= Len(toks)
        /\ \A j \in 1 .. Len(pat) : ElemMatches(pat[j], toks[i + j - 1])

SUM_RE == <<"SUM", "(", "REF", ":", "REF", ")">>
SUBTOTAL_RE == <<"SUBTOTAL", "(", "9", ",", "REF", ":", "REF", ")">>
CELL_REF_RE == <<"=", "REF">>
MUL_DIV_RE == <<"=", "REF", "*", "(", "REF", "/", "NUM", ")">>

----------------------------------------------------------------------------
(* FormulaEvaluator: ExcelSheetModel._display_value and its helpers, and   *)
(* ExcelFilterProxyModel.filterAcceptsRow, which SUBTOTAL consults.  g is  *)
(* the grid model: [ws, dirty, mtl (_merge_top_left), flt (_col_allowed),  *)
(* max_row, max_col].  fuel is the depth of nested evaluations left before *)
(* Python's recursion limit; every handler in _display_value is            *)
(* `except Exception: return v`, which is what running out of it yields.   *)

\* self.dirty.get((r, c), self.ws.cell(row=r, column=c).value)
dirty_get(g, r, c) ==
    IF <<r, c>> \in DOMAIN g.dirty THEN g.dirty[<<r, c>>]
    ELSE cell_value(g.ws, r, c)

\* float(t) of a text: a run of digits, thousands separators removed
IsNumberText(toks) == Len(toks) = 1 /\ toks[1].t \in {"digits", "digits,"}

\* f"{n:,}"
format_int(n) == IF n >= 1000 THEN <<DigC(n)>> ELSE <<Dig(n)>>

\* ExcelSheetModel._format_value
format_value(v) ==
    CASE v.k = "none" -> Str(<<>>)
      [] v.k = "num"  -> Str(format_int(v.n))
      [] OTHER        -> v

IsFormula(v) ==
    v.k = "str" /\ strip(v.s) # <<>> /\ strip(v.s)[1].t = "="

\* range(r1, r2 + 1) x range(c1, c2 + 1), in loop order
row_major(r1, r2, c1, c2) ==
    IF r2 < r1 \/ c2 < c1 THEN <<>>
    ELSE LET nc == c2 - c1 + 1
         IN [i \in 1 .. (r2 - r1 + 1) * nc |->
                <<r1 + ((i - 1) \div nc), c1 + ((i - 1) % nc)>>]

InBounds(g, r, c) == 1 <= r /\ r <= g.max_row /\ 1 <= c /\ c <= g.max_col

EMPTY_TOKEN == <<W("(binkap)")>>

RECURSIVE display_value(_, _, _, _, _)
RECURSIVE read_number_from_cell(_, _, _, _)
RECURSIVE eval_sum_loop(_, _, _, _, _, _)
RECURSIVE eval_subtotal_loop(_, _, _, _, _, _)
RECURSIVE is_row_visible(_, _, _)
RECURSIVE filterAcceptsRow(_, _, _)
RECURSIVE data(_, _, _, _, _)

\* ExcelSheetModel._read_number_from_cell
read_number_from_cell(g, row, col, fuel) ==
    LET cc == canonical_cell(g.mtl, row, col)
        vv == dirty_get(g, cc[1], cc[2])
        t  == strip(vv.s)
        shown == display_value(g, vv, cc[1], cc[2], fuel)
    IN CASE vv.k = "none" -> 0
         [] vv.k = "num"  -> vv.n
         [] vv.k = "str"  ->
                IF IsFormula(vv) /\ shown.k = "num" THEN shown.n
                ELSE IF IsNumberText(t) THEN t[1].a ELSE 0
         [] OTHER -> 0

\* a slip: every cell of the rectangle is read, visited or not
RECURSIVE eval_sum_loop_no_dedupe(_, _, _, _, _, _)
eval_sum_loop_no_dedupe(g, cells, i, processed, total, fuel) ==
    IF i > Len(cells) THEN total
    ELSE LET r == cells[i][1]
             c == cells[i][2]
             cc == canonical_cell(g.mtl, r, c)
         IN IF ~InBounds(g, r, c)
            THEN eval_sum_loop_no_dedupe(g, cells, i + 1, processed, total, fuel)
            ELSE eval_sum_loop_no_dedupe(g, cells, i + 1, processed \cup {cc},
                     total + read_number_from_cell(g, cc[1], cc[2], fuel), fuel)

\* the loop of ExcelSheetModel._eval_sum
eval_sum_loop(g, cells, i, processed, total, fuel) ==
    IF i > Len(cells) THEN total
    ELSE LET r == cells[i][1]
             c == cells[i][2]
             cc == canonical_cell(g.mtl, r, c)
         IN IF ~InBounds(g, r, c) \/ cc \in processed
            THEN eval_sum_loop(g, cells, i + 1, processed, total, fuel)
            ELSE eval_sum_loop(g, cells, i + 1, processed \cup {cc},
                     total + read_number_from_cell(g, cc[1], cc[2], fuel), fuel)

\* ExcelSheetModel._eval_sum, given the two addresses its regex captured
eval_sum(g, caps, fuel) ==
    LET s == addr_to_row_col(caps[1])
        e == addr_to_row_col(caps[2])
    IN eval_sum_loop(g, row_major(s[1], e[1], s[2], e[2]), 1, {}, 0, fuel)

\* the loop of ExcelSheetModel._eval_subtotal
eval_subtotal_loop(g, cells, i, processed, total, fuel) ==
    IF i > Len(cells) THEN total
    ELSE LET r == cells[i][1]
             c == cells[i][2]
             cc == canonical_cell(g.mtl, r, c)
         IN IF ~InBounds(g, r, c) \/ cc \in processed
            THEN eval_subtotal_loop(g, cells, i + 1, processed, total, fuel)
            ELSE IF is_row_visible(g, r, fuel)
            THEN eval_subtotal_loop(g, cells, i + 1, processed \cup {cc},
                     total + read_number_from_cell(g, cc[1], cc[2], fuel), fuel)
            ELSE eval_subtotal_loop(g, cells, i + 1, processed, total, fuel)

\* ExcelSheetModel._eval_subtotal
eval_subtotal(g, caps, fuel) ==
    LET s == addr_to_row_col(caps[1])
        e == addr_to_row_col(caps[2])
    IN eval_subtotal_loop(g, row_major(s[1], e[1], s[2], e[2]), 1, {}, 0, fuel)

\* ExcelSheetModel._read_number
read_number(g, tok) ==
    LET rc == addr_to_row_col(tok)
        cc == canonical_cell(g.mtl, rc[1], rc[2])
        vv == dirty_get(g, cc[1], cc[2])
        t  == strip(vv.s)
    IN CASE vv.k = "num" -> vv.n
         [] vv.k = "str" /\ IsNumberText(t) -> t[1].a
         [] OTHER -> 0

\* the cell-reference branch of _display_value (=T388)
eval_cell_ref(g, v, tok, fuel) ==
    LET rc == addr_to_row_col(tok)
        ref_value == dirty_get(g, rc[1], rc[2])
    IN CASE IsFormula(ref_value) -> display_value(g, ref_value, rc[1], rc[2], fuel)
         [] ref_value.k = "str" /\ IsNumberText(strip(ref_value.s)) ->
                Num(strip(ref_value.s)[1].a)
         [] OTHER -> ref_value

\* ExcelSheetModel._eval_simple_mul_div: a * (b / denom); the model's numbers
\* are integers and its sheets keep a * b a multiple of denom
eval_simple_mul_div(g, v, m) ==
    IF ~m.ok \/ m.caps[3].a = 0 THEN v
    ELSE Num((read_number(g, m.caps[1]) * read_number(g, m.caps[2]))
                 \div m.caps[3].a)

\* ExcelSheetModel._display_value
display_value(g, v, r, c, fuel) ==
    IF ~IsFormula(v) \/ fuel = 0 THEN v
    ELSE LET s == strip(v.s)
             sum == re_search(SUM_RE, s)
             sub == re_search(SUBTOTAL_RE, s)
             ref == re_fullmatch(CELL_REF_RE, s)
         IN CASE Contains(s, <<"SUM", "(">>) ->
                    IF sum.ok THEN Num(eval_sum(g, sum.caps, fuel - 1)) ELSE v
              [] ~Contains(s, <<"SUM", "(">>)
                   /\ Contains(s, <<"SUBTOTAL", "(", "9", ",">>) ->
                    IF sub.ok THEN Num(eval_subtotal(g, sub.caps, fuel - 1)) ELSE v
              [] OTHER ->
                    IF ref.ok THEN eval_cell_ref(g, v, ref.caps[1], fuel - 1)
                    ELSE eval_simple_mul_div(g, v, re_fullmatch(MUL_DIV_RE, s))

\* ExcelSheetModel.data for Qt.DisplayRole ("display") and Qt.EditRole ("edit")
data(g, r, c, role, fuel) ==
    IF is_merged_non_topleft(g.mtl, r, c) THEN Str(<<>>)
    ELSE LET cc == canonical_cell(g.mtl, r, c)
             v == dirty_get(g, cc[1], cc[2])
         IN IF role = "edit"
            THEN (IF v = None THEN Str(<<>>) ELSE v)
            ELSE format_value(display_value(g, v, cc[1], cc[2], fuel))

\* ExcelFilterProxyModel._cell_text (0-based source row and column)
cell_text(g, source_row, source_col, fuel) ==
    strip(data(g, source_row + 1, source_col + 1, "display", fuel).s)

\* ExcelFilterProxyModel.filterAcceptsRow; the search box is empty, so the
\* base class accepts every row
filterAcceptsRow(g, source_row, fuel) ==
    IF source_row < 3 THEN TRUE
    ELSE \A col \in DOMAIN g.flt :
            LET allowed == g.flt[col]
                txt == cell_text(g, source_row, col, fuel)
                key == IF txt = <<>> THEN EMPTY_TOKEN ELSE txt
            IN \/ allowed.none
               \/ col < 0 \/ col >= g.max_col
               \/ key \in allowed.vals

\* ExcelSheetModel._is_row_visible
is_row_visible(g, row, fuel) ==
    IF row - 1 < 0 THEN TRUE ELSE filterAcceptsRow(g, row - 1, fuel)

----------------------------------------------------------------------------
(* GridModel: ExcelSheetModel's editing operations.                        *)

\* the stand-in for deque(maxlen=100): the history capacity of the model
HistoryCap == 2

\* ExcelSheetModel._parse_user_input, on the text the editor hands over
parse_user_input(value) ==
    LET text == strip(value)
    IN IF text = <<>> THEN None
       ELSE IF IsNumberText(text) THEN Num(text[1].a)
       ELSE Str(text)

\* "needle in haystack" for texts
text_contains(toks, kw) ==
    \E i \in 1 .. Len(toks) :
        i + Len(kw) - 1 <= Len(toks) /\ SubSeq(toks, i, i + Len(kw) - 1) = kw

\* hv.replace(" ", "")
remove_spaces(toks) == SelectSeq(toks, LAMBDA tok : ~IsSpace(tok))

\* the row of the sheet ExcelSheetModel treats as the header row
MODEL_HEADER_ROW == 1

\* ExcelSheetModel._find_chargeback_rate_cols
find_chargeback_rate_cols(w) ==
    {c \in 1 .. w.max_col :
        LET hv == cell_value(w, MODEL_HEADER_ROW, c)
            s == remove_spaces(hv.s)
        IN /\ hv.k = "str" /\ hv.s # <<>>
           /\ \/ text_contains(s, <<W("gusang")>>) /\ text_contains(s, <<W("yul")>>)
              \/ text_contains(hv.s, <<W("chargeback")>>)
                   /\ text_contains(hv.s, <<W("rate")>>)}

\* deque.append on a deque with maxlen
push(stack, rec) ==
    LET s == Append(stack, rec)
    IN IF Len(s) > HistoryCap THEN Tail(s) ELSE s

EditRecord(r, c, old, new) ==
    [row |-> r, col |-> c, old_value |-> old, new_value |-> new]

\* setData without the merge handling: the clicked coordinate is the key
setData_clicked_key(m, r, c, value) ==
    LET in_dirty == IF <<r, c>> \in DOMAIN m.dirty THEN m.dirty[<<r, c>>] ELSE None
        old_val == IF in_dirty = None THEN cell_value(m.ws, r, c) ELSE in_dirty
        new_val == parse_user_input(value)
        rejected == \/ r = MODEL_HEADER_ROW
                    \/ (~m.edit_all /\ c \notin m.editable_cols)
    IN IF rejected
       THEN [ret |-> FALSE, dirty |-> m.dirty, undo |-> m.undo, redo |-> m.redo]
       ELSE [ret |-> TRUE,
             dirty |-> Override(m.dirty, [x \in {<<r, c>>} |-> new_val]),
             undo |-> IF old_val # new_val
                      THEN push(m.undo, EditRecord(r, c, old_val, new_val))
                      ELSE m.undo,
             redo |-> IF old_val # new_val THEN <<>> ELSE m.redo]

\* ExcelSheetModel.setData(index(r - 1, c - 1), value, Qt.EditRole) on the
\* model m = [ws, dirty, mtl, edit_all, editable_cols, undo, redo];
\* _is_undoing is False whenever a handler starts
setData(m, r, c, value) ==
    LET cc == canonical_cell(m.mtl, r, c)
        in_dirty == IF cc \in DOMAIN m.dirty THEN m.dirty[cc] ELSE None
        old_val == IF in_dirty = None THEN cell_value(m.ws, cc[1], cc[2])
                   ELSE in_dirty
        new_val == parse_user_input(value)
        rejected == \/ r = MODEL_HEADER_ROW
                    \/ is_merged_non_topleft(m.mtl, r, c)
                    \/ (~m.edit_all /\ cc[2] \notin m.editable_cols)
    IN IF rejected
       THEN [ret |-> FALSE, dirty |-> m.dirty, undo |-> m.undo, redo |-> m.redo]
       ELSE [ret |-> TRUE,
             dirty |-> Override(m.dirty, [x \in {cc} |-> new_val]),
             undo |-> IF old_val # new_val
                      THEN push(m.undo, EditRecord(cc[1], cc[2], old_val, new_val))
                      ELSE m.undo,
             redo |-> IF old_val # new_val THEN <<>> ELSE m.redo]

\* ExcelSheetModel.undo
undo(m) ==
    IF Len(m.undo) = 0
    THEN [ret |-> FALSE, dirty |-> m.dirty, undo |-> m.undo, redo |-> m.redo]
    ELSE LET edit == m.undo[Len(m.undo)]
             key == <<edit.row, edit.col>>
         IN [ret |-> TRUE,
             undo |-> SubSeq(m.undo, 1, Len(m.undo) - 1),
             redo |-> push(m.redo, edit),
             dirty |-> IF edit.old_value = None
                       THEN Without(m.dirty, key)
                       ELSE Override(m.dirty, [x \in {key} |-> edit.old_value])]

\* ExcelSheetModel.redo
redo(m) ==
    IF Len(m.redo) = 0
    THEN [ret |-> FALSE, dirty |-> m.dirty, undo |-> m.undo, redo |-> m.redo]
    ELSE LET edit == m.redo[Len(m.redo)]
             key == <<edit.row, edit.col>>
         IN [ret |-> TRUE,
             redo |-> SubSeq(m.redo, 1, Len(m.redo) - 1),
             undo |-> push(m.undo, edit),
             dirty |-> Override(m.dirty, [x \in {key} |-> edit.new_value])]

\* ExcelSheetModel.apply_dirty_to_sheet: the worksheet after the write-back
apply_dirty_to_sheet(w, d) == [w EXCEPT !.cells = Override(w.cells, d)]

----------------------------------------------------------------------------
(* The worksheet the grid model is loaded on: a title row 1 with a rate    *)
(* caption over column C, the SUBTOTAL cell in row 2, the header in row 3, *)
(* data rows 4..7, the SUM total in row 9.  Column A is a category, column *)
(* B the occurrence amount (B5:B6 merged), column C the rate (C5:C6        *)
(* merged); C8 and C9 hold SUMs over parts of column B that cut the merged *)
(* block.  Korean header words are romanised: chagye (vehicle), balsaeng   *)
(* geumaek (occurrence amount), gusang yul (chargeback rate).              *)

T(word) == Str(<<W(word)>>)

SubtotalFormula(first, last) ==
    Str(<<W("="), W("SUBTOTAL"), W("("), Dig(9), W(","), first, W(":"), last, W(")")>>)

SumFormula(first, last) ==
    Str(<<W("="), W("SUM"), W("("), first, W(":"), last, W(")")>>)

\* the same function as a user types it: "= sum( B4 : B5 )"
SpacedSumFormula(first, last) ==
    Str(<<W("="), W(" "), W("sum"), W("("), W(" "), first, W(" "), W(":"),
          W(" "), last, W(" "), W(")")>>)

AmountA == Num(1000)
AmountV == Num(200)
AmountB == Num(30)

GridCells ==
    Override([x \in (1 .. 9) \X (1 .. 3) |-> None],
      (<<1, 1>> :> T("title")) @@
      (<<1, 3>> :> Str(<<W("gusang"), W("yul")>>)) @@
      (<<2, 2>> :> SubtotalFormula(Ref(<<2>>, 4), Ref(<<2>>, 7))) @@
      (<<3, 1>> :> T("chagye")) @@
      (<<3, 2>> :> Str(<<W("balsaeng"), W("geumaek")>>)) @@
      (<<3, 3>> :> Str(<<W("gusang"), W("yul")>>)) @@
      (<<4, 1>> :> T("a")) @@ (<<5, 1>> :> T("b")) @@
      (<<6, 1>> :> T("c")) @@ (<<7, 1>> :> T("a")) @@
      (<<4, 2>> :> AmountA) @@ (<<5, 2>> :> AmountV) @@
      (<<7, 2>> :> AmountB) @@
      (<<4, 3>> :> Num(50)) @@ (<<5, 3>> :> Num(50)) @@ (<<7, 3>> :> Num(50)) @@
      (<<9, 1>> :> Str(<<W("balsaeng"), W("geumaek")>>)) @@
      (<<9, 2>> :> SumFormula(Ref(<<2>>, 4), Ref(<<2>>, 7))) @@
      (<<8, 3>> :> SpacedSumFormula(Ref(<<2>>, 4), Ref(<<2>>, 5))) @@
      (<<9, 3>> :> SumFormula(Ref(<<2>>, 6), Ref(<<2>>, 7))))

GridSheet ==
    [cells |-> GridCells, fills |-> {},
     merges |-> <<Range(5, 2, 6, 2), Range(5, 3, 6, 3)>>,
     max_row |-> 9, max_col |-> 3]

\* the number of setData calls a behaviour makes
MaxEdits == 3
\* nested evaluations before the recursion limit
MaxDepth == 4

EditTargets == {<<1, 3>>, <<3, 3>>, <<5, 3>>, <<6, 3>>, <<4, 2>>}
EditInputs == {<<>>, <<DigC(1000)>>}

NoFilter == [none |-> TRUE, vals |-> {}]
Allow(vals) == [none |-> FALSE, vals |-> vals]
\* what the user can tick in the filter dialog of column A (source column 0)
FilterChoices == {Allow({<<W("a")>>}), Allow({<<W("a")>>, <<W("b")>>}),
                  Allow({<<W("a")>>, <<W("c")>>})}

\* the grid model as the operators above take it
M == [ws |-> ws, dirty |-> dirty, mtl |-> merge_top_left, edit_all |-> edit_all,
      editable_cols |-> editable_cols, undo |-> undo_stack, redo |-> redo_stack]

G == [ws |-> ws, dirty |-> dirty, mtl |-> merge_top_left, flt |-> col_allowed,
      max_row |-> ws.max_row, max_col |-> ws.max_col]

Call(op, r, c, ret) == [op |-> op, r |-> r, c |-> c, ret |-> ret]

\* MainPageWidget.__init__ followed by _initialize.  Workbook objects are
\* named by the order in which they were loaded (0 is Python's None) and
\* kept in books; a workbook has one sheet.  tasks holds the WorkerThread
\* objects whose signal has not been handled yet.  raced is the set of
\* workbooks the last handler of the interactive thread touched while a
\* preprocess thread was working on them.
NoPage ==
    [wb_domestic |-> 0, wb_overseas |-> 0,
     preprocessed_domestic |-> FALSE, preprocessed_overseas |-> FALSE,
     model |-> 0, current_sheet |-> "", btn_preprocess |-> FALSE,
     load_worker |-> 0, process_worker |-> 0,
     tasks |-> {}, n_tasks |-> 0, n_loads |-> 0, n_clicks |-> 0,
     books |-> <<>>, saved |-> <<>>, raced |-> {}, alive |-> TRUE]

\* MainPageWidget.load_sheet: ExcelSheetModel(ws) and a fresh proxy
Init ==
    /\ ws = GridSheet
    /\ dirty = EmptyMap
    /\ edit_all = FALSE
    /\ editable_cols = find_chargeback_rate_cols(ws)
    /\ merge_top_left = build_merge_cache(ws.merges)
    /\ undo_stack = <<>>
    /\ redo_stack = <<>>
    /\ col_allowed = EmptyMap
    /\ lastCall = Call("init", 0, 0, FALSE)
    /\ nEdits = 0
    /\ onlyEdits = TRUE
    /\ page = NoPage

\* the user commits an edit of cell (r, c)
SetData(r, c, value) ==
    /\ nEdits < MaxEdits
    /\ LET res == setData(M, r, c, value)
       IN /\ dirty' = res.dirty
          /\ undo_stack' = res.undo
          /\ redo_stack' = res.redo
          /\ lastCall' = Call("setData", r, c, res.ret)
    /\ nEdits' = nEdits + 1
    /\ UNCHANGED <<page, ws, edit_all, editable_cols, merge_top_left, col_allowed, onlyEdits>>

\* MainPageWidget.on_undo
Undo ==
    /\ LET res == undo(M)
       IN /\ dirty' = res.dirty
          /\ undo_stack' = res.undo
          /\ redo_stack' = res.redo
          /\ lastCall' = Call("undo", 0, 0, res.ret)
    /\ onlyEdits' = FALSE
    /\ UNCHANGED <<page, ws, edit_all, editable_cols, merge_top_left, col_allowed, nEdits>>

\* MainPageWidget.on_redo
Redo ==
    /\ LET res == redo(M)
       IN /\ dirty' = res.dirty
          /\ undo_stack' = res.undo
          /\ redo_stack' = res.redo
          /\ lastCall' = Call("redo", 0, 0, res.ret)
    /\ onlyEdits' = FALSE
    /\ UNCHANGED <<page, ws, edit_all, editable_cols, merge_top_left, col_allowed, nEdits>>

\* apply_dirty_to_sheet, as save and preprocess call it before they start
ApplyDirtyToSheet ==
    /\ ws' = apply_dirty_to_sheet(ws, dirty)
    /\ lastCall' = Call("apply_dirty_to_sheet", 0, 0, TRUE)
    /\ onlyEdits' = FALSE
    /\ UNCHANGED <<page, dirty, edit_all, editable_cols, merge_top_left, undo_stack,
                   redo_stack, col_allowed, nEdits>>

\* MainPageWidget.on_edit_mode_changed
SetEditAll(on) ==
    /\ edit_all' = on
    /\ lastCall' = Call("set_edit_all", 0, 0, on)
    /\ UNCHANGED <<page, ws, dirty, editable_cols, merge_top_left, undo_stack,
                   redo_stack, col_allowed, nEdits, onlyEdits>>

\* ExcelFilterProxyModel.set_column_filter on column A
SetColumnFilter(allowed) ==
    /\ col_allowed' = Override(col_allowed, [x \in {0} |-> allowed])
    /\ lastCall' = Call("set_column_filter", 0, 0, TRUE)
    /\ UNCHANGED <<page, ws, dirty, edit_all, editable_cols, merge_top_left, undo_stack,
                   redo_stack, nEdits, onlyEdits>>

\* ExcelFilterProxyModel.clear_all_column_filters
ClearAllColumnFilters ==
    /\ col_allowed' = EmptyMap
    /\ lastCall' = Call("clear_all_column_filters", 0, 0, TRUE)
    /\ UNCHANGED <<page, ws, dirty, edit_all, editable_cols, merge_top_left, undo_stack,
                   redo_stack, nEdits, onlyEdits>>

Next ==
    \/ \E rc \in EditTargets, value \in EditInputs : SetData(rc[1], rc[2], value)
    \/ Undo
    \/ Redo
    \/ ApplyDirtyToSheet
    \/ \E on \in BOOLEAN : SetEditAll(on)

Spec == Init /\ [][Next]_vars

----------------------------------------------------------------------------
(* Properties of the grid model (specification Spec).                      *)

\* CompanyConfig.header_row and data_start_row as preprocess_inplace sets them
HEADER_ROW == 3
DATA_START_ROW == 4

\* (r, c) lies in a merge range of the sheet
InSomeRange(w, r, c) == \E i \in 1 .. Len(w.merges) : InRange(w.merges[i], r, c)

\* (r, c) lies in a merge range of the sheet and is not its anchor
IsSecondary(w, r, c) ==
    \E i \in 1 .. Len(w.merges) :
        /\ InRange(w.merges[i], r, c)
        /\ <<r, c>> # <<w.merges[i].min_row, w.merges[i].min_col>>

\* this step is a setData call
IsSetDataStep == nEdits' = nEdits + 1 /\ lastCall'.op = "setData"

\* C3: every cell of a merge range reads, through the grid model's display
\* and edit data, the same value as the range's anchor.
C3_MergedCellsReadAnchor ==
    \A i \in 1 .. Len(ws.merges) : \A rc \in RangeCells(ws.merges[i]) :
        \A role \in {"display", "edit"} :
            data(G, rc[1], rc[2], role, MaxDepth)
              = data(G, ws.merges[i].min_row, ws.merges[i].min_col, role, MaxDepth)

\* C4: a set on a non-anchor cell of a merge range returns false and leaves
\* the overlay, UndoStack and RedoStack as they were, in both edit-all modes.
C4_SecondaryEditRejected ==
    [][(IsSetDataStep /\ IsSecondary(ws, lastCall'.r, lastCall'.c))
         => /\ lastCall'.ret = FALSE
            /\ dirty' = dirty
            /\ undo_stack' = undo_stack
            /\ redo_stack' = redo_stack]_vars

\* C4's case: with edit-all on and edits recorded, a set on C6 was refused
C4_Witness ==
    /\ lastCall.op = "setData" /\ IsSecondary(ws, lastCall.r, lastCall.c)
    /\ lastCall.ret = FALSE
    /\ edit_all /\ dirty # EmptyMap /\ undo_stack # <<>>

\* C5: a set on a cell of the configured header row returns false and leaves
\* the overlay unchanged, with edit-all on or off, and the grid model's
\* header row is the header row of the preprocessing config.
C5_HeaderRowEditRejected ==
    [][(IsSetDataStep /\ lastCall'.r = HEADER_ROW)
         => /\ lastCall'.ret = FALSE
            /\ dirty' = dirty
            /\ MODEL_HEADER_ROW = HEADER_ROW]_vars

ModelAfter(m, res) ==
    [m EXCEPT !.dirty = res.dirty, !.undo = res.undo, !.redo = res.redo]

RECURSIVE undo_times(_, _)
undo_times(m, n) == IF n = 0 THEN m ELSE undo_times(ModelAfter(m, undo(m)), n - 1)

RECURSIVE redo_times(_, _)
redo_times(m, n) == IF n = 0 THEN m ELSE redo_times(ModelAfter(m, redo(m)), n - 1)

\* C6: after edits E1..En on a freshly loaded model, n undo() calls followed
\* by n redo() calls give back the overlay as it was after E1..En.
C6_UndoRedoRoundTrip ==
    onlyEdits => redo_times(undo_times(M, nEdits), nEdits).dirty = dirty

----------------------------------------------------------------------------
(* Display-time evaluation under edits and column filters (specification   *)
(* SpecEval): the user edits the amounts of column B and ticks values in   *)
(* the filter dialog of column A.                                          *)

EvalTargets == {<<4, 2>>, <<5, 2>>, <<6, 2>>}
EvalInputs == {<<>>, <<DigC(1000)>>, <<W(" "), Dig(7)>>}

NextEval ==
    \/ \E rc \in EvalTargets, value \in EvalInputs : SetData(rc[1], rc[2], value)
    \/ \E on \in BOOLEAN : SetEditAll(on)
    \/ \E allowed \in FilterChoices \cup {NoFilter} : SetColumnFilter(allowed)
    \/ ClearAllColumnFilters

SpecEval == Init /\ [][NextEval]_vars

\* the value a cell holds for the reader: the overlay entry, else the sheet's
EffectiveValue(rc) ==
    IF rc \in DOMAIN dirty THEN dirty[rc] ELSE cell_value(ws, rc[1], rc[2])

\* the number a plain cell stands for: itself, a numeric text's value, else 0
NumericContent(rc) ==
    LET v == EffectiveValue(rc)
    IN CASE v.k = "num" -> v.n
         [] v.k = "str" /\ IsNumberText(strip(v.s)) -> strip(v.s)[1].a
         [] OTHER -> 0

\* the anchor of the merge range (r, c) lies in, (r, c) itself outside ranges
AnchorOf(w, r, c) ==
    IF InSomeRange(w, r, c)
    THEN LET i == CHOOSE j \in 1 .. Len(w.merges) : InRange(w.merges[j], r, c)
         IN <<w.merges[i].min_row, w.merges[i].min_col>>
    ELSE <<r, c>>

\* the distinct canonical cells of the rectangle first:last, inside the sheet
DistinctCanonical(first, last) ==
    LET s == addr_to_row_col(first)
        e == addr_to_row_col(last)
    IN {AnchorOf(ws, r, c) : r \in (s[1] .. e[1]) \cap (1 .. ws.max_row),
                             c \in (s[2] .. e[2]) \cap (1 .. ws.max_col)}

RECURSIVE SumOfContents(_)
SumOfContents(cells) ==
    IF cells = {} THEN 0
    ELSE LET rc == CHOOSE x \in cells : TRUE
         IN NumericContent(rc) + SumOfContents(cells \ {rc})

\* the cells whose effective value is exactly =SUM(first:last)
SumCells ==
    {rc \in DOMAIN ws.cells :
        LET v == EffectiveValue(rc)
        IN v.k = "str" /\ re_fullmatch(<<"=">> \o SUM_RE, v.s).ok}

Shown(rc) == display_value(G, EffectiveValue(rc), rc[1], rc[2], MaxDepth)

\* C8: the display of =SUM(range) is the sum of the numeric content of the
\* distinct canonical cells of the rectangle, so a merged block's anchor value
\* is added exactly once however many of its cells the rectangle holds; over
\* B4:B7 (A in B4, the block B5:B6 with V, B in B7) it is A + B + V.
C8_SumCountsAnchorOnce ==
    /\ \A rc \in SumCells :
          LET m == re_fullmatch(<<"=">> \o SUM_RE, EffectiveValue(rc).s)
          IN Shown(rc) = Num(SumOfContents(DistinctCanonical(m.caps[1], m.caps[2])))
    /\ Shown(<<9, 2>>) = Num(NumericContent(<<4, 2>>) + NumericContent(<<7, 2>>)
                               + NumericContent(<<5, 2>>))

\* C8's case: the block's value V and the amounts A, B have been edited, are
\* all non-zero, and the three SUM cells (whole block, anchor only, secondary
\* cell only) are on display
C8_Witness ==
    /\ SumCells = {<<9, 2>>, <<8, 3>>, <<9, 3>>}
    /\ <<5, 2>> \in DOMAIN dirty /\ NumericContent(<<5, 2>>) = 7
    /\ <<4, 2>> \in DOMAIN dirty /\ NumericContent(<<4, 2>>) = 1000
    /\ NumericContent(<<7, 2>>) = 30
    /\ Shown(<<9, 2>>) = Num(1037)

\* the filter reports row r of the sheet as visible
RowVisible(r) == filterAcceptsRow(G, r - 1, MaxDepth)

\* C9: over B4:B7, with A and B in visible rows and the merged block's row
\* (the row of its anchor B5) reported filtered-out, =SUBTOTAL(9,B4:B7) displays
\* A + B, and =SUM(B4:B7) displays A + B + V in every filter state.
C9_SubtotalSkipsFilteredBlock ==
    LET A == NumericContent(<<4, 2>>)
        B == NumericContent(<<7, 2>>)
        V == NumericContent(<<5, 2>>)
    IN /\ Shown(<<9, 2>>) = Num(A + B + V)
       /\ (RowVisible(4) /\ RowVisible(7) /\ ~RowVisible(ws.merges[1].min_row))
              => Shown(<<2, 2>>) = Num(A + B)

----------------------------------------------------------------------------
(* The merge index over arbitrary sheets (specification SpecMerge): a      *)
(* workbook whose sheet has any non-overlapping merge ranges is opened,    *)
(* and load_sheet builds the grid model, and so the merge cache, on it.    *)

\* the sheets are MergeRows x MergeCols and hold up to MaxRanges merge ranges
MergeRows == 2
MergeCols == 3
MaxRanges == 2

\* every merge range of the sheet: a rectangle of at least two cells
MergeRects ==
    {Range(r1, c1, r2, c2) : r1 \in 1 .. MergeRows, c1 \in 1 .. MergeCols,
                             r2 \in 1 .. MergeRows, c2 \in 1 .. MergeCols}
      \cap {mr \in [min_row : 1 .. MergeRows, min_col : 1 .. MergeCols,
                    max_row : 1 .. MergeRows, max_col : 1 .. MergeCols] :
               /\ mr.min_row <= mr.max_row /\ mr.min_col <= mr.max_col
               /\ <<mr.min_row, mr.min_col>> # <<mr.max_row, mr.max_col>>}

Overlap(a, b) == RangeCells(a) \cap RangeCells(b) # {}

\* ws.merged_cells.ranges, in any iteration order
MergeLayouts ==
    {layout \in UNION {[1 .. n -> MergeRects] : n \in 0 .. MaxRanges} :
        \A i, j \in DOMAIN layout : i < j => ~Overlap(layout[i], layout[j])}

\* a sheet with that layout: numbers in the cells, None in the MergedCells
MergeSheet(layout) ==
    [cells |-> [rc \in (1 .. MergeRows) \X (1 .. MergeCols) |->
                   IF \E i \in DOMAIN layout :
                         /\ InRange(layout[i], rc[1], rc[2])
                         /\ rc # <<layout[i].min_row, layout[i].min_col>>
                   THEN None ELSE Num(rc[1] * 10 + rc[2])],
     fills |-> {}, merges |-> layout,
     max_row |-> MergeRows, max_col |-> MergeCols]

\* MainPageWidget._on_load_finished: a workbook is open, no grid model yet
InitMerge ==
    /\ ws \in {MergeSheet(layout) : layout \in MergeLayouts}
    /\ dirty = EmptyMap
    /\ edit_all = FALSE
    /\ editable_cols = {}
    /\ merge_top_left = EmptyMap
    /\ undo_stack = <<>>
    /\ redo_stack = <<>>
    /\ col_allowed = EmptyMap
    /\ lastCall = Call("load_workbook", 0, 0, TRUE)
    /\ nEdits = 0
    /\ onlyEdits = TRUE
    /\ page = NoPage

\* MainPageWidget.on_sheet_changed -> load_sheet: a new ExcelSheetModel and a
\* new proxy on the worksheet; edit_all is taken over from the checkbox
LoadSheet ==
    /\ dirty' = EmptyMap
    /\ editable_cols' = find_chargeback_rate_cols(ws)
    /\ merge_top_left' = build_merge_cache(ws.merges)
    /\ undo_stack' = <<>>
    /\ redo_stack' = <<>>
    /\ col_allowed' = EmptyMap
    /\ lastCall' = Call("load_sheet", 0, 0, TRUE)
    /\ nEdits' = 0
    /\ onlyEdits' = TRUE
    /\ UNCHANGED <<page, ws, edit_all>>

NextMerge ==
    \/ LoadSheet
    \/ \E on \in BOOLEAN : SetEditAll(on)

SpecMerge == InitMerge /\ [][NextMerge]_vars

\* load_sheet has just constructed the grid model on the worksheet
JustLoaded == lastCall.op = "load_sheet"

\* C7: for the merge cache load_sheet builds from any non-overlapping merge
\* ranges and every coordinate (r, c), also outside the sheet: canonical(r, c) is the anchor of the range (r, c) lies
\* in and (r, c) itself otherwise, canonical is idempotent, and is_secondary
\* holds exactly when canonical(r, c) differs from (r, c).
C7_CanonicalCell ==
    JustLoaded =>
    \A r \in 0 .. ws.max_row + 1, c \in 0 .. ws.max_col + 1 :
        LET cc == canonical_cell(merge_top_left, r, c)
        IN /\ \A i \in 1 .. Len(ws.merges) :
                 InRange(ws.merges[i], r, c)
                    => cc = <<ws.merges[i].min_row, ws.merges[i].min_col>>
           /\ ~InSomeRange(ws, r, c) => cc = <<r, c>>
           /\ canonical_cell(merge_top_left, cc[1], cc[2]) = cc
           /\ is_merged_non_topleft(merge_top_left, r, c) <=> (cc # <<r, c>>)

\* C7's case: a sheet with two ranges, one of them away from the sheet's
\* corner and more than one column wide, has been loaded
C7_Witness ==
    /\ lastCall.op = "load_sheet"
    /\ Len(ws.merges) = 2
    /\ \E i \in 1 .. 2 :
          /\ ws.merges[i].min_row # ws.merges[i].min_col
          /\ ws.merges[i].max_col > ws.merges[i].min_col
          /\ canonical_cell(merge_top_left, ws.merges[i].max_row, ws.merges[i].max_col)
               = <<ws.merges[i].min_row, ws.merges[i].min_col>>

----------------------------------------------------------------------------
(* DataRegionDetector: utils.guess_last_data_row (specification SpecGuess) *)
(* on sheets whose anchor column A holds any mix of None, "", " " and a    *)
(* number, and on the sheet of the documented example.                     *)

\* the default of the empty_run parameter
EMPTY_RUN == 30

\* v in (None, "")
is_empty_cell(v) == v = None \/ v = Str(<<>>)

\* a slip: the streak is not reset by a non-blank cell
RECURSIVE guess_loop_no_reset(_, _, _, _, _, _)
guess_loop_no_reset(w, data_start_row, anchor_col, empty_run, r, streak) ==
    IF r > w.max_row THEN w.max_row
    ELSE IF is_empty_cell(cell_value(w, r, anchor_col))
         THEN IF streak + 1 >= empty_run THEN r - empty_run
              ELSE guess_loop_no_reset(w, data_start_row, anchor_col, empty_run,
                                       r + 1, streak + 1)
         ELSE guess_loop_no_reset(w, data_start_row, anchor_col, empty_run,
                                  r + 1, streak)

\* the for loop of guess_last_data_row, from row r with the streak so far:
\* the value of `last` when the loop ends
RECURSIVE guess_loop(_, _, _, _, _, _)
guess_loop(w, data_start_row, anchor_col, empty_run, r, streak) ==
    IF r > w.max_row THEN w.max_row
    ELSE IF is_empty_cell(cell_value(w, r, anchor_col))
         THEN IF streak + 1 >= empty_run THEN r - empty_run
              ELSE guess_loop(w, data_start_row, anchor_col, empty_run,
                              r + 1, streak + 1)
         ELSE guess_loop(w, data_start_row, anchor_col, empty_run, r + 1, 0)

\* utils.guess_last_data_row
guess_last_data_row(w, data_start_row, anchor_col, empty_run) ==
    Max(guess_loop(w, data_start_row, anchor_col, empty_run, data_start_row, 0),
        data_start_row)

\* the longest anchor column, the largest start row and the longest run drawn
MaxColumnLen == 5
MaxStartRow == 3
MaxEmptyRun == 3

AnchorValues == {None, Str(<<>>), Str(<<W(" ")>>), Num(1)}

AnchorColumns == UNION {[1 .. n -> AnchorValues] : n \in 1 .. MaxColumnLen}

\* a sheet of one column
ColumnSheet(col) ==
    [cells |-> [rc \in (1 .. Len(col)) \X {1} |-> col[rc[1]]],
     fills |-> {}, merges |-> <<>>, max_row |-> Len(col), max_col |-> 1]

\* the documented example: non-blank through row 40, blank in rows 41..70
ExampleSheet == ColumnSheet([r \in 1 .. 70 |-> IF r <= 40 THEN Num(1) ELSE None])

InitGuess ==
    /\ ws \in {ColumnSheet(col) : col \in AnchorColumns} \cup {ExampleSheet}
    /\ dirty = EmptyMap
    /\ edit_all = FALSE
    /\ editable_cols = {}
    /\ merge_top_left = EmptyMap
    /\ undo_stack = <<>>
    /\ redo_stack = <<>>
    /\ col_allowed = EmptyMap
    /\ lastCall = Call("load_workbook", 0, 0, 0)
    /\ nEdits = 0
    /\ onlyEdits = TRUE
    /\ page = NoPage

\* guess_last_data_row(ws, data_start_row, 1, empty_run); lastCall keeps the
\* arguments in r and c and the row returned in ret
GuessLastDataRow(data_start_row, empty_run) ==
    /\ lastCall' = Call("guess_last_data_row", data_start_row, empty_run,
                        guess_last_data_row(ws, data_start_row, 1, empty_run))
    /\ UNCHANGED <<page, ws, dirty, edit_all, editable_cols, merge_top_left, undo_stack,
                   redo_stack, col_allowed, nEdits, onlyEdits>>

NextGuess ==
    \/ \E s \in 1 .. MaxStartRow, e \in 1 .. MaxEmptyRun : GuessLastDataRow(s, e)
    \/ GuessLastDataRow(DATA_START_ROW, EMPTY_RUN)

SpecGuess == InitGuess /\ [][NextGuess]_vars

\* the rows at which a run of empty_run consecutive blank cells of the anchor
\* column, none of them above data_start_row, is completed
RunEnds(w, data_start_row, empty_run) ==
    {r \in data_start_row .. w.max_row :
        /\ r - empty_run + 1 >= data_start_row
        /\ \A k \in (r - empty_run + 1) .. r : is_empty_cell(cell_value(w, k, 1))}

SetMin(S) == CHOOSE x \in S : \A y \in S : x <= y

IsGuessCall == lastCall.op = "guess_last_data_row"

\* the documented example: start row 4, run 30, data through row 40
ExampleHolds ==
    (IsGuessCall /\ ws = ExampleSheet /\ lastCall.r = DATA_START_ROW
        /\ lastCall.c = EMPTY_RUN) => lastCall.ret = 40

\* C10 as stated: when a run of empty_run consecutive blank cells is first
\* completed at row r, guess_last_data_row returns r - empty_run; when there
\* is no such run it returns the sheet's last physical row; in the documented
\* example it returns 40.
C10_GuessLastRowAsStated ==
    /\ IsGuessCall =>
          LET ends == RunEnds(ws, lastCall.r, lastCall.c)
          IN lastCall.ret = IF ends # {} THEN SetMin(ends) - lastCall.c
                            ELSE ws.max_row
    /\ ExampleHolds

\* C10 amended: the row returned is never above data_start_row: it is
\* max(r - empty_run, data_start_row) when a run of empty_run consecutive
\* blank cells (None or "") is first completed at row r, and
\* max(last physical row, data_start_row) when there is no such run; in the
\* documented example it is 40.
C10_GuessLastRowClamped ==
    /\ IsGuessCall =>
          LET ends == RunEnds(ws, lastCall.r, lastCall.c)
          IN lastCall.ret = IF ends # {} THEN Max(SetMin(ends) - lastCall.c, lastCall.r)
                            ELSE Max(ws.max_row, lastCall.r)
    /\ ExampleHolds

\* C10's case: the documented example has been run and returned 40
C10_Witness ==
    /\ IsGuessCall /\ ws = ExampleSheet
    /\ lastCall.r = DATA_START_ROW /\ lastCall.c = EMPTY_RUN
    /\ RunEnds(ws, lastCall.r, lastCall.c) = {70}
    /\ lastCall.ret = 40

----------------------------------------------------------------------------
(* ColumnLocator and the value parsers of utils.py.  A header text is a    *)
(* sequence of words; a keyword is contained in it when its words are a    *)
(* contiguous part of it ("gusang" is in "gusang yul" and in "gusang       *)
(* geumaek", as the Korean keyword is in both headers).  Further romanised *)
(* words: suri ilja (repair date), panmae il (sale date), juhaeng geori    *)
(* (mileage).                                                              *)

\* str.lower(), for the capitalised words the sheets use
lower_word(word) ==
    CASE word = "Vehicle" -> "vehicle"
      [] word = "Mileage" -> "mileage"
      [] word = "Chargeback" -> "chargeback"
      [] word = "Rate" -> "rate"
      [] word = "Ratio" -> "ratio"
      [] OTHER -> word

lower(toks) == [i \in 1 .. Len(toks) |-> [toks[i] EXCEPT !.t = lower_word(@)]]

\* str(v) of a cell value
str(v) ==
    CASE v.k = "str" -> v.s
      [] v.k = "num" -> <<Dig(v.n)>>
      [] v.k = "date" -> <<W("date"), Dig(v.n)>>
      [] OTHER -> <<W("None")>>

\* utils.norm: newlines to spaces, strip, lower
norm(v) ==
    lower(strip([i \in 1 .. Len(str(v)) |->
                    IF str(v)[i].t = "\n" THEN W(" ") ELSE str(v)[i]]))

\* does the header cell v match the keywords under the mode
header_matches(v, keywords, mode) ==
    /\ v # None /\ v # Str(<<>>)
    /\ IF mode = "all"
       THEN \A i \in 1 .. Len(keywords) : text_contains(norm(v), lower(keywords[i]))
       ELSE \E i \in 1 .. Len(keywords) : text_contains(norm(v), lower(keywords[i]))

\* utils.find_col_by_keywords_ws: the first matching column, 0 where the
\* code raises ValueError
find_col_by_keywords_ws(w, header_row, keywords, mode) ==
    LET hits == {col \in 1 .. w.max_col :
                    header_matches(cell_value(w, header_row, col), keywords, mode)}
    IN IF hits = {} THEN 0 ELSE CHOOSE col \in hits : \A h \in hits : col <= h

VEHICLE_KEYS == << <<W("vehicle")>>, <<W("chagye")>> >>
OCC_KEYS == << <<W("total"), W(" "), W("cost")>>, <<W("balsaeng")>>,
               <<W("balsaeng"), W("geumaek")>> >>
CHB_KEYS == << <<W("chargeback")>>, <<W("gusang")>>, <<W("gusang"), W("geumaek")>> >>
ANCHOR_KEYS == << <<W("repair"), W(" "), W("date")>>, <<W("suri"), W("ilja")>>,
                  <<W("repair")>> >>
MILEAGE_KEYS == << <<W("mileage")>>, <<W("juhaeng"), W("geori")>> >>
SALE_KEYS == << <<W("sale"), W(" "), W("date")>>, <<W("panmae"), W("il")>>,
                <<W("sale")>> >>
REPAIR_KEYS == ANCHOR_KEYS
RATE_KEYS == << <<W("gusang"), W("yul")>>, <<W("liability"), W(" "), W("ratio")>>,
                <<W("ratio")>> >>

\* excel_processor._is_blank
is_blank(v) == v = None \/ (v.k = "str" /\ strip(v.s) = <<>>)

Absent == [ok |-> FALSE, n |-> 0]
Present(n) == [ok |-> TRUE, n |-> n]

\* utils.parse_int_like: [ok, n], ok FALSE for None
parse_int_like(v) ==
    CASE v = None \/ v = Str(<<>>) -> Absent
      [] v.k = "num" -> Present(v.n)
      [] v.k = "str" /\ IsNumberText(strip(v.s)) -> Present(strip(v.s)[1].a)
      [] OTHER -> Absent

\* a datetime.date cell value, by its proleptic Gregorian ordinal
Date(ord) == [k |-> "date", n |-> ord, s |-> <<>>]

IsLeap(y) == (y % 4 = 0 /\ y % 100 # 0) \/ y % 400 = 0

DaysInMonth(y, m) ==
    CASE m \in {1, 3, 5, 7, 8, 10, 12} -> 31
      [] m \in {4, 6, 9, 11} -> 30
      [] OTHER -> IF IsLeap(y) THEN 29 ELSE 28

RECURSIVE DaysBeforeMonth(_, _)
DaysBeforeMonth(y, m) ==
    IF m <= 1 THEN 0 ELSE DaysBeforeMonth(y, m - 1) + DaysInMonth(y, m - 1)

\* date(y, m, d).toordinal()
ToOrdinal(y, m, d) ==
    LET p == y - 1
    IN 365 * p + (p \div 4) - (p \div 100) + (p \div 400) + DaysBeforeMonth(y, m) + d

\* datetime.strptime(str(iv), "%Y%m%d").date() of an 8-digit number
parse_yyyymmdd(iv) ==
    LET y == iv \div 10000
        m == (iv \div 100) % 100
        d == iv % 100
    IN IF m >= 1 /\ m <= 12 /\ d >= 1 /\ d <= DaysInMonth(y, m)
       THEN Present(ToOrdinal(y, m, d)) ELSE Absent

\* datetime(1899, 12, 30).toordinal(), the base of Excel serials
EXCEL_BASE == 693594

\* the string branch of parse_excel_date on a run of digits: eight digits are
\* read as yyyymmdd
parse_digits(n) ==
    IF 10000000 <= n /\ n <= 99999999 THEN parse_yyyymmdd(n) ELSE Absent

\* utils.parse_excel_date: [ok, n], n the ordinal of the date parsed; the
\* texts of the model's sheets are digit runs or words
parse_excel_date(v) ==
    CASE v = None \/ v = Str(<<>>) -> Absent
      [] v.k = "date" -> Present(v.n)
      [] v.k = "num" ->
            LET ymd == IF 19000101 <= v.n /\ v.n <= 21001231
                       THEN parse_yyyymmdd(v.n) ELSE Absent
            IN IF ymd.ok THEN ymd
               ELSE IF 20000 <= v.n /\ v.n <= 80000 THEN Present(EXCEL_BASE + v.n)
               ELSE parse_digits(v.n)
      [] v.k = "str" ->
            LET t == strip(v.s)
            IN IF Len(t) = 1 /\ t[1].t = "digits" THEN parse_digits(t[1].a)
               ELSE Absent
      [] OTHER -> Absent

----------------------------------------------------------------------------
(* The preprocessing pipeline of excel_processor.py, step by step, as      *)
(* operators from worksheet to worksheet.                                  *)

\* isinstance(ws.cell(row, col), MergedCell)
is_merged_cell(w, row, col) ==
    \E i \in 1 .. Len(w.merges) :
        /\ InRange(w.merges[i], row, col)
        /\ <<row, col>> # <<w.merges[i].min_row, w.merges[i].min_col>>

\* excel_processor._resolve_merged_anchor
resolve_merged_anchor(w, row, col) ==
    IF ~is_merged_cell(w, row, col) THEN <<row, col>>
    ELSE LET hits == {i \in 1 .. Len(w.merges) : InRange(w.merges[i], row, col)}
             i == CHOOSE x \in hits : \A h \in hits : x <= h
         IN <<w.merges[i].min_row, w.merges[i].min_col>>

\* excel_processor.set_cell_value_safe; a new cell extends the sheet
set_cell_value_safe(w, row, col, value) ==
    LET a == resolve_merged_anchor(w, row, col)
    IN [w EXCEPT !.cells = Override(@, [x \in {a} |-> value]),
                 !.max_row = Max(@, a[1]),
                 !.max_col = Max(@, a[2])]

\* excel_processor.set_cell_fill_safe with FILL_HIGHLIGHT
set_cell_fill_safe(w, row, col) ==
    [w EXCEPT !.fills = @ \cup {resolve_merged_anchor(w, row, col)}]

\* excel_processor.iter_data_rows
iter_data_rows(w, data_start_row, last_row, anchor_col) ==
    SelectSeq([i \in 1 .. (last_row - data_start_row + 1) |-> data_start_row + i - 1],
              LAMBDA r : ~is_blank(cell_value(w, r, anchor_col)))

\* the inner loop of unmerge_and_fill_column: rows r..last of the column
RECURSIVE fill_rows(_, _, _, _, _)
fill_rows(w, r, last, col, value) ==
    IF r > last THEN w
    ELSE fill_rows(set_cell_value_safe(w, r, col, value), r + 1, last, col, value)

\* the fill of the unmerged rows without the bound last_row
unmerge_and_fill_range_to_end(w, mr, target_col, last_row) ==
    LET top_left == cell_value(w, mr.min_row, mr.min_col)
        unmerged == [w EXCEPT !.merges = SelectSeq(@, LAMBDA x : x # mr)]
    IN fill_rows(unmerged, mr.min_row, mr.max_row, target_col, top_left)

\* ws.unmerge_cells(str(mr)) and the fill of the unmerged rows
unmerge_and_fill_range(w, mr, target_col, last_row) ==
    LET top_left == cell_value(w, mr.min_row, mr.min_col)
        unmerged == [w EXCEPT !.merges = SelectSeq(@, LAMBDA x : x # mr)]
    IN fill_rows(unmerged, mr.min_row, Min(mr.max_row, last_row), target_col, top_left)

\* the first loop of unmerge_and_fill_column, over the ranges listed at entry
RECURSIVE unmerge_loop(_, _, _, _, _, _)
unmerge_loop(w, merged_ranges, i, target_col, data_start_row, last_row) ==
    IF i > Len(merged_ranges) THEN w
    ELSE LET mr == merged_ranges[i]
             hit == /\ mr.min_col <= target_col /\ target_col <= mr.max_col
                    /\ mr.min_row >= data_start_row
         IN unmerge_loop(IF hit THEN unmerge_and_fill_range(w, mr, target_col, last_row)
                         ELSE w,
                         merged_ranges, i + 1, target_col, data_start_row, last_row)

\* the forward fill of unmerge_and_fill_column
RECURSIVE ffill(_, _, _, _, _)
ffill(w, r, last_row, target_col, prev) ==
    IF r > last_row THEN w
    ELSE LET cur == cell_value(w, r, target_col)
         IN IF is_blank(cur)
            THEN ffill(IF ~is_blank(prev)
                       THEN set_cell_value_safe(w, r, target_col, prev) ELSE w,
                       r + 1, last_row, target_col, prev)
            ELSE ffill(w, r + 1, last_row, target_col, cur)

\* excel_processor.unmerge_and_fill_column
unmerge_and_fill_column(w, target_col, data_start_row, last_row) ==
    ffill(unmerge_loop(w, w.merges, 1, target_col, data_start_row, last_row),
          data_start_row, last_row, target_col, None)

\* float(str(old).replace(",", "")) in set_rate: [ok, n]
rate_number(old) ==
    CASE is_blank(old) -> Absent
      [] old.k = "num" -> Present(old.n)
      [] old.k = "str" /\ IsNumberText(strip(old.s)) -> Present(strip(old.s)[1].a)
      [] OTHER -> Absent

\* set_rate without the comparison with the old rate: every call writes the
\* rate and records the row
set_rate_always(s, row, rate_col, new_rate) ==
    LET a == resolve_merged_anchor(s.ws, row, rate_col)
    IN [ws |-> [s.ws EXCEPT !.cells = Override(@, [x \in {a} |-> Num(new_rate)])],
        changed |-> s.changed \cup {row}]

\* excel_processor.set_rate on the state s = [ws, changed]
set_rate(s, row, rate_col, new_rate) ==
    LET a == resolve_merged_anchor(s.ws, row, rate_col)
        old_f == rate_number(cell_value(s.ws, a[1], a[2]))
    IN IF old_f # Present(new_rate)
       THEN [ws |-> [s.ws EXCEPT !.cells = Override(@, [x \in {a} |-> Num(new_rate)])],
             changed |-> s.changed \cup {row}]
       ELSE s

\* excel_processor.pick_mileage_col; 0 where find_col_by_keywords_ws raises
pick_mileage_col(w, header_row) ==
    LET primary == find_col_by_keywords_ws(w, header_row, MILEAGE_KEYS, "any")
        candidates ==
            {c \in 1 .. w.max_col :
                LET hv == cell_value(w, header_row, c)
                IN /\ hv.k = "str" /\ hv.s # <<>>
                   /\ \/ text_contains(remove_spaces(hv.s), <<W("juhaeng")>>)
                      \/ text_contains(lower(hv.s), <<W("mileage")>>)}
    IN IF primary = 0 THEN 0
       ELSE IF candidates # {} THEN CHOOSE c \in candidates : \A d \in candidates : c >= d
       ELSE primary

MILEAGE_THRESHOLD == 50000
WARRANTY_YEARS == 2

\* the body of the row loop of apply_warranty_filters_ws, on s = [ws, changed];
\* cols = [mileage, sale, repair, rate], lim = [mileage_threshold, warranty_days]
warranty_row(s, r, cols, lim) ==
    LET mv == parse_int_like(cell_value(s.ws, r, cols.mileage))
        s1 == IF mv.ok /\ mv.n >= lim.mileage_threshold
              THEN set_rate([s EXCEPT !.ws = set_cell_fill_safe(@, r, cols.mileage)],
                            r, cols.rate, 0)
              ELSE s
        sale_dt == parse_excel_date(cell_value(s1.ws, r, cols.sale))
        repair_dt == parse_excel_date(cell_value(s1.ws, r, cols.repair))
    IN IF sale_dt.ok /\ repair_dt.ok /\ repair_dt.n - sale_dt.n >= lim.warranty_days
       THEN set_rate([s1 EXCEPT !.ws = set_cell_fill_safe(
                                          set_cell_fill_safe(@, r, cols.sale),
                                          r, cols.repair)],
                     r, cols.rate, 0)
       ELSE s1

RECURSIVE warranty_loop(_, _, _, _, _)
warranty_loop(s, data_rows, i, cols, lim) ==
    IF i > Len(data_rows) THEN s
    ELSE warranty_loop(warranty_row(s, data_rows[i], cols, lim), data_rows, i + 1,
                       cols, lim)

\* for r in changed_rows: set_cell_fill_safe(ws, r, rate_col, FILL_HIGHLIGHT)
fill_changed(w, changed, rate_col) ==
    [w EXCEPT !.fills = @ \cup {resolve_merged_anchor(w, r, rate_col) : r \in changed}]

\* excel_processor.apply_warranty_filters_ws: [ws, rate_col, err, changed],
\* err the exception that left the function, changed the changed_rows set
apply_warranty_filters_ws(w, header_row, data_rows, mileage_threshold, warranty_years) ==
    LET mileage_col == pick_mileage_col(w, header_row)
        sale_col == find_col_by_keywords_ws(w, header_row, SALE_KEYS, "any")
        repair_col == find_col_by_keywords_ws(w, header_row, REPAIR_KEYS, "any")
        rate_col == find_col_by_keywords_ws(w, header_row, RATE_KEYS, "any")
        s == warranty_loop([ws |-> w, changed |-> {}], data_rows, 1,
                           [mileage |-> mileage_col, sale |-> sale_col,
                            repair |-> repair_col, rate |-> rate_col],
                           [mileage_threshold |-> mileage_threshold,
                            warranty_days |-> warranty_years * 365])
    IN IF 0 \in {mileage_col, sale_col, repair_col, rate_col}
       THEN [ws |-> w, rate_col |-> 0, err |-> "ColumnNotFound", changed |-> {}]
       ELSE [ws |-> fill_changed(s.ws, s.changed, rate_col), rate_col |-> rate_col,
             err |-> "none", changed |-> s.changed]

\* f"={occ_addr}*({rate_addr}/100)"
ChargebackFormula(occ_addr, rate_addr) ==
    Str(<<W("="), occ_addr, W("*"), W("("), rate_addr, W("/"), Dig(100), W(")")>>)

\* f"=SUBTOTAL({func},{first}:{last})"
SubtotalFormulaOf(func, first, last) ==
    Str(<<W("="), W("SUBTOTAL"), W("("), Dig(func), W(","), first, W(":"), last, W(")")>>)

\* excel_processor.set_chargeback_formula_rows
RECURSIVE set_chargeback_formula_rows(_, _, _, _, _, _)
set_chargeback_formula_rows(w, data_rows, i, occ_col, rate_col, chb_col) ==
    IF i > Len(data_rows) THEN w
    ELSE LET r == data_rows[i]
         IN set_chargeback_formula_rows(
                set_cell_value_safe(w, r, chb_col,
                    ChargebackFormula(coordinate(r, occ_col), coordinate(r, rate_col))),
                data_rows, i + 1, occ_col, rate_col, chb_col)

\* the writes of add_sum_rows with sum_start_row = last_row + 2
sum_row_writes_two_below(data_rows, occ_col, chb_col, label_col_offset) ==
    LET first_row == data_rows[1]
        last_row == data_rows[Len(data_rows)]
        sum_start_row == last_row + 2
    IN << <<sum_start_row, occ_col - label_col_offset,
            Str(<<W("balsaeng"), W("geumaek")>>)>>,
          <<sum_start_row, occ_col,
            SumFormula(coordinate(first_row, occ_col), coordinate(last_row, occ_col))>>,
          <<sum_start_row + 1, chb_col - label_col_offset,
            Str(<<W("gusang"), W("geumaek")>>)>>,
          <<sum_start_row + 1, chb_col,
            SumFormula(coordinate(first_row, chb_col), coordinate(last_row, chb_col))>> >>

\* the writes of add_sum_rows, in order: <<row, col, value>>
sum_row_writes(data_rows, occ_col, chb_col, label_col_offset) ==
    LET first_row == data_rows[1]
        last_row == data_rows[Len(data_rows)]
        sum_start_row == last_row + 3
    IN << <<sum_start_row, occ_col - label_col_offset,
            Str(<<W("balsaeng"), W("geumaek")>>)>>,
          <<sum_start_row, occ_col,
            SumFormula(coordinate(first_row, occ_col), coordinate(last_row, occ_col))>>,
          <<sum_start_row + 1, chb_col - label_col_offset,
            Str(<<W("gusang"), W("geumaek")>>)>>,
          <<sum_start_row + 1, chb_col,
            SumFormula(coordinate(first_row, chb_col), coordinate(last_row, chb_col))>> >>

\* the writes one after the other; ws.cell raises ValueError for a column
\* (or row) below 1, and the writes made before it stay
RECURSIVE write_all(_, _, _)
write_all(w, writes, i) ==
    IF i > Len(writes) THEN [ws |-> w, err |-> "none"]
    ELSE IF writes[i][1] < 1 \/ writes[i][2] < 1 THEN [ws |-> w, err |-> "ValueError"]
    ELSE write_all(set_cell_value_safe(w, writes[i][1], writes[i][2], writes[i][3]),
                   writes, i + 1)

\* excel_processor.add_sum_rows: [ws, err]
add_sum_rows(w, data_rows, occ_col, chb_col) ==
    IF data_rows = <<>> THEN [ws |-> w, err |-> "none"]
    ELSE write_all(w, sum_row_writes(data_rows, occ_col, chb_col, 1), 1)

\* excel_processor.set_subtotal_if_empty
set_subtotal_if_empty(w, target_col, data_rows, subtotal_row, use_109) ==
    IF data_rows = <<>> \/ ~is_blank(cell_value(w, subtotal_row, target_col)) THEN w
    ELSE set_cell_value_safe(w, subtotal_row, target_col,
             SubtotalFormulaOf(IF use_109 THEN 109 ELSE 9,
                               coordinate(data_rows[1], target_col),
                               coordinate(data_rows[Len(data_rows)], target_col)))

Outcome(w, err) == [ws |-> w, err |-> err]

\* the column lookups at the head of process_wb_inplace; 0 where one raises
lookup_cols(w) ==
    [vehicle |-> find_col_by_keywords_ws(w, HEADER_ROW, VEHICLE_KEYS, "any"),
     occ |-> find_col_by_keywords_ws(w, HEADER_ROW, OCC_KEYS, "any"),
     chb |-> find_col_by_keywords_ws(w, HEADER_ROW, CHB_KEYS, "any"),
     anchor |-> find_col_by_keywords_ws(w, HEADER_ROW, ANCHOR_KEYS, "any")]

\* excel_processor.process_wb_inplace with the config of preprocess_inplace:
\* [ws, err], the worksheet as the call leaves it and the exception, if any
process_wb_inplace(w) ==
    \* one statement after the other: v is evaluated once, F continues with it
    LET Bind(v, F(_)) == CHOOSE r \in {F(x) : x \in {v}} : TRUE IN
    Bind(lookup_cols(w), LAMBDA c :
    IF 0 \in {c.vehicle, c.occ, c.chb, c.anchor} THEN Outcome(w, "ColumnNotFound") ELSE
    Bind(guess_last_data_row(w, DATA_START_ROW, c.anchor, EMPTY_RUN),
         LAMBDA last_row_guess :
    Bind(unmerge_and_fill_column(w, c.vehicle, DATA_START_ROW, last_row_guess),
         LAMBDA w1 :
    Bind(iter_data_rows(w1, DATA_START_ROW, last_row_guess, c.anchor),
         LAMBDA data_rows :
    IF data_rows = <<>> THEN Outcome(w1, "none") ELSE
    Bind(apply_warranty_filters_ws(w1, HEADER_ROW, data_rows, MILEAGE_THRESHOLD,
                                   WARRANTY_YEARS),
         LAMBDA filtered :
    IF filtered.err # "none" THEN Outcome(w1, filtered.err) ELSE
    Bind(set_chargeback_formula_rows(filtered.ws, data_rows, 1, c.occ,
                                     filtered.rate_col, c.chb),
         LAMBDA w3 :
    Bind(add_sum_rows(w3, data_rows, c.occ, c.chb), LAMBDA summed :
    IF summed.err # "none" THEN summed
    ELSE Outcome(set_subtotal_if_empty(summed.ws, c.occ, data_rows,
                                       HEADER_ROW - 1, TRUE), "none"))))))))

\* excel_processor.preprocess_inplace: every exception leaves as an AppError
\* that carries the message of its cause
preprocess_inplace(w) ==
    LET res == process_wb_inplace(w)
    IN [ws |-> res.ws,
        err |-> CASE res.err = "none" -> "none"
                  [] res.err = "ColumnNotFound" -> "AppError(ColumnNotFound)"
                  [] OTHER -> "AppError(ValueError)"]

----------------------------------------------------------------------------
(* Preprocessing of a workbook (specification SpecPre): claim sheets laid  *)
(* out as preprocess_inplace expects them (title, a blank row 2, the       *)
(* header in row 3, data from row 4) and preprocess_inplace called on them *)
(* again and again.                                                        *)

\* the repair date of the data rows: 2025-07-25
RepairDay == ToOrdinal(2025, 7, 25)

PreColumns == <<"vehicle", "repair", "sale", "mileage", "occ", "rate", "chb">>

\* the header text of a column
HeaderText(name) ==
    CASE name = "vehicle" -> T("chagye")
      [] name = "repair" -> Str(<<W("suri"), W("ilja")>>)
      [] name = "sale" -> Str(<<W("panmae"), W("il")>>)
      [] name = "mileage" -> Str(<<W("juhaeng"), W("geori"), W("\n"), W("("), W("km"), W(")")>>)
      [] name = "occ" -> Str(<<W("balsaeng"), W("geumaek")>>)
      [] name = "rate" -> Str(<<W("gusang"), W("yul")>>)
      [] name = "chb" -> Str(<<W("gusang"), W("geumaek")>>)
      [] OTHER -> T("bigo")

\* what varies from sheet to sheet
PreOptions ==
    [missing : {"none", "vehicle", "repair", "sale", "mileage", "occ", "rate", "chb"},
     merged : BOOLEAN,
     km : {Num(49999), Num(50000), Str(<<DigC(60000)>>)},
     sale : {Date(RepairDay - 730), Date(RepairDay - 729), None},
     rate : {Num(50)},
     rate_left : BOOLEAN,
     tail : {0}]

\* the column a field is in: rate and chargeback amount in either order
PreCol(o, name) ==
    CASE name = "rate" -> IF o.rate_left THEN 6 ELSE 7
      [] name = "chb" -> IF o.rate_left THEN 7 ELSE 6
      [] OTHER -> CHOOSE c \in 1 .. 5 : PreColumns[c] = name

\* the claim sheet: three data rows 4..6 (vehicle A4:A5 merged or not) and
\* o.tail blank rows below them
PreSheet(o) ==
    LET col(name) == PreCol(o, name)
        header == [rc \in {3} \X (1 .. 7) |->
                      LET name == CHOOSE n \in {PreColumns[i] : i \in 1 .. 7} :
                                      col(n) = rc[2]
                      IN IF name = o.missing THEN T("bigo") ELSE HeaderText(name)]
        rows ==
            (<<4, col("vehicle")>> :> T("a")) @@
            (<<5, col("vehicle")>> :> IF o.merged THEN None ELSE T("b")) @@
            (<<6, col("vehicle")>> :> T("c")) @@
            [rc \in (4 .. 6) \X {col("repair")} |-> Date(RepairDay)] @@
            (<<4, col("sale")>> :> o.sale) @@
            (<<5, col("sale")>> :> Date(RepairDay - 100)) @@
            (<<6, col("sale")>> :> Num(20250101)) @@
            (<<4, col("mileage")>> :> o.km) @@
            (<<5, col("mileage")>> :> Num(10)) @@
            (<<4, col("occ")>> :> Num(1000)) @@
            (<<5, col("occ")>> :> Num(200)) @@
            (<<6, col("occ")>> :> Num(30)) @@
            [rc \in (4 .. 6) \X {col("rate")} |-> IF rc[1] = 4 THEN o.rate ELSE Num(50)]
    IN [cells |-> Override([rc \in (1 .. 6 + o.tail) \X (1 .. 7) |-> None],
                           (<<1, 1>> :> T("title")) @@ header @@ rows),
        fills |-> {},
        merges |-> IF o.merged THEN <<Range(4, 1, 5, 1)>> ELSE <<>>,
        max_row |-> 6 + o.tail, max_col |-> 7]

\* how many times preprocess_inplace is called on a workbook
MaxCalls == 2

InitPre ==
    /\ ws \in {PreSheet(o) : o \in PreOptions}
    /\ dirty = EmptyMap
    /\ edit_all = FALSE
    /\ editable_cols = {}
    /\ merge_top_left = EmptyMap
    /\ undo_stack = <<>>
    /\ redo_stack = <<>>
    /\ col_allowed = EmptyMap
    /\ lastCall = Call("load_workbook", 0, 0, "none")
    /\ nEdits = 0
    /\ onlyEdits = TRUE
    /\ page = NoPage

\* the number of preprocess_inplace calls made on the workbook so far
CallsMade == IF lastCall.op = "preprocess_inplace" THEN lastCall.r ELSE 0

\* preprocess_inplace(wb, company, keyword); lastCall keeps the ordinal of
\* the call in r and the exception raised, or "none", in ret
PreprocessInplace ==
    /\ CallsMade < MaxCalls
    /\ LET res == preprocess_inplace(ws)
       IN /\ ws' = res.ws
          /\ lastCall' = Call("preprocess_inplace", CallsMade + 1, 0, res.err)
    /\ UNCHANGED <<page, dirty, edit_all, editable_cols, merge_top_left, undo_stack,
                   redo_stack, col_allowed, nEdits, onlyEdits>>

NextPre == PreprocessInplace

SpecPre == InitPre /\ [][NextPre]_vars

\* this step is a call of preprocess_inplace
IsPreprocessStep ==
    lastCall'.op = "preprocess_inplace" /\ lastCall'.r = CallsMade + 1

\* a preprocess_inplace call has completed on the workbook
FirstCallCompleted == lastCall.op = "preprocess_inplace" /\ lastCall.ret = "none"

\* no cell value, fill or merge range of sheet a differs in sheet b
SameWorkbook(a, b) ==
    /\ a.fills = b.fills
    /\ a.merges = b.merges
    /\ \A rc \in DOMAIN a.cells \cup DOMAIN b.cells :
          cell_value(a, rc[1], rc[2]) = cell_value(b, rc[1], rc[2])

\* C1: once a preprocess call has completed on a workbook, a further call
\* fails with AlreadyPreprocessed and changes no cell value, fill or merge
\* range of the workbook.
C1_SecondPreprocessRejected ==
    [][(IsPreprocessStep /\ FirstCallCompleted)
         => /\ lastCall'.ret = "AppError(AlreadyPreprocessed)"
            /\ SameWorkbook(ws, ws')]_vars

\* the required columns a lookup of the run cannot find in the header row
MissingColumns(w) ==
    {keys \in {VEHICLE_KEYS, OCC_KEYS, CHB_KEYS, ANCHOR_KEYS, MILEAGE_KEYS,
               SALE_KEYS, RATE_KEYS} :
        find_col_by_keywords_ws(w, HEADER_ROW, keys, "any") = 0}

\* C2: when a required header column cannot be found, preprocess fails with
\* ColumnNotFound and leaves the cell values, fills and merge ranges of the
\* workbook exactly as they were.
C2_ColumnNotFoundLeavesWorkbook ==
    [][(IsPreprocessStep /\ MissingColumns(ws) # {})
         => /\ lastCall'.ret = "AppError(ColumnNotFound)"
            /\ SameWorkbook(ws, ws')]_vars

----------------------------------------------------------------------------
(* The outcome of a preprocessing run on the rows that breach a warranty   *)
(* rule.                                                                   *)

\* ExcelSheetModel(ws): the grid model a view opens over a worksheet
GridOver(w) ==
    [ws |-> w, dirty |-> EmptyMap, mtl |-> build_merge_cache(w.merges),
     flt |-> EmptyMap, max_row |-> w.max_row, max_col |-> w.max_col]

\* the column of sheet w that carries the header of the field, 0 if none does
ColumnOf(w, name) ==
    LET hits == {c \in 1 .. w.max_col : cell_value(w, HEADER_ROW, c) = HeaderText(name)}
    IN IF hits = {} THEN 0 ELSE CHOOSE c \in hits : TRUE

\* the header row of sheet w carries every field
HasEveryHeader(w) == \A i \in 1 .. Len(PreColumns) : ColumnOf(w, PreColumns[i]) # 0

\* the rows iter_data_rows yields: a non-blank anchor (repair date) cell
DataRowsOf(w) ==
    {r \in DATA_START_ROW .. w.max_row :
        ~is_blank(cell_value(w, r, ColumnOf(w, "repair")))}

\* the parsed mileage of row r is at or above the threshold
MileageBreach(w, r) ==
    LET mv == parse_int_like(cell_value(w, r, ColumnOf(w, "mileage")))
    IN mv.ok /\ mv.n >= MILEAGE_THRESHOLD

\* both dates of row r parse and lie warranty_years * 365 days or more apart
PeriodBreach(w, r) ==
    LET sale_dt == parse_excel_date(cell_value(w, r, ColumnOf(w, "sale")))
        repair_dt == parse_excel_date(cell_value(w, r, ColumnOf(w, "repair")))
    IN sale_dt.ok /\ repair_dt.ok /\ repair_dt.n - sale_dt.n >= WARRANTY_YEARS * 365

\* row r of the processed sheet w has rate 0 and a chargeback formula that
\* displays 0
RateZeroed(w, r) ==
    /\ cell_value(w, r, ColumnOf(w, "rate")) = Num(0)
    /\ LET c == ColumnOf(w, "chb")
       IN /\ IsFormula(cell_value(w, r, c))
          /\ display_value(GridOver(w), cell_value(w, r, c), r, c, MaxDepth).k = "num"
          /\ display_value(GridOver(w), cell_value(w, r, c), r, c, MaxDepth).n = 0

\* C11: after a preprocessing run that completes, every data row whose
\* mileage is at or above the threshold, or whose repair date is 730 days or
\* more after its sale date, has rate 0, its mileage cell (respectively its
\* sale-date cell) highlighted, and a chargeback formula that displays 0.
C11_BreachZeroesRate ==
    [][(IsPreprocessStep /\ HasEveryHeader(ws) /\ lastCall'.ret = "none")
         => \A r \in DataRowsOf(ws) :
               /\ MileageBreach(ws, r)
                    => <<r, ColumnOf(ws, "mileage")>> \in ws'.fills /\ RateZeroed(ws', r)
               /\ PeriodBreach(ws, r)
                    => <<r, ColumnOf(ws, "sale")>> \in ws'.fills /\ RateZeroed(ws', r)]_vars

\* C15: in a header row that carries both the rate header and the
\* chargeback-amount header, in either order, the column located as the
\* chargeback-amount column is not the column located as the rate column.
C15_ChargebackColumnIsNotRateColumn ==
    (ColumnOf(ws, "rate") # 0 /\ ColumnOf(ws, "chb") # 0)
        => find_col_by_keywords_ws(ws, HEADER_ROW, CHB_KEYS, "any")
             # find_col_by_keywords_ws(ws, HEADER_ROW, RATE_KEYS, "any")

----------------------------------------------------------------------------
(* Display reads (specification SpecDisplay): the grid sheet with one more *)
(* formula in B8, drawn from supported and unsupported shapes; the view    *)
(* asks data(index, DisplayRole) of cells while the user edits B4.         *)

FormulaCell == <<8, 2>>

B4 == Ref(<<2>>, 4)
B5 == Ref(<<2>>, 5)
B7 == Ref(<<2>>, 7)

\* formulas outside the four shapes
UnsupportedFormulas ==
    {Str(SumFormula(B4, B5).s \o <<W("+"), Dig(1)>>),
     Str(SubtotalFormula(B4, B7).s \o <<W("*"), Dig(2)>>),
     Str(<<W("="), B4, W("*"), W("("), B7, W("/"), Dig(0), W(")")>>),
     Str(<<W("="), Ref(<<2>>, 8)>>),
     Str(<<W("="), B4, W("+"), B7>>),
     Str(<<W("="), W("SUM"), W("("), B4, W(")")>>),
     SubtotalFormulaOf(109, B4, B7),
     Str(ChargebackFormula(B4, B7).s \o <<W("*"), Dig(2)>>)}

\* formulas of the four shapes; D12 lies outside the sheet
SupportedFormulas ==
    {SumFormula(B4, B7), SubtotalFormula(B4, B7), Str(<<W("="), B4>>),
     Str(<<W("="), Ref(<<4>>, 12)>>), ChargebackFormula(B4, Ref(<<3>>, 4))}

DisplaySheets ==
    {[GridSheet EXCEPT !.cells = Override(@, [x \in {FormulaCell} |-> f])] :
        f \in UnsupportedFormulas \cup SupportedFormulas}

\* the cells _display_value asks the worksheet for by address, ws.cell(row,
\* column): the referenced cell of a cell reference and the ones it leads
\* to, the two operands of the product shape
RECURSIVE cells_asked(_, _, _)
cells_asked(g, v, fuel) ==
    IF ~IsFormula(v) \/ fuel = 0 THEN {}
    ELSE LET s == strip(v.s)
             ref == re_fullmatch(CELL_REF_RE, s)
             mul == re_fullmatch(MUL_DIV_RE, s)
             rc == addr_to_row_col(ref.caps[1])
         IN CASE Contains(s, <<"SUM", "(">>)
                   \/ Contains(s, <<"SUBTOTAL", "(", "9", ",">>) -> {}
              [] OTHER ->
                    IF ref.ok
                    THEN {rc} \cup cells_asked(g, dirty_get(g, rc[1], rc[2]), fuel - 1)
                    ELSE IF mul.ok
                    THEN {LET a == addr_to_row_col(mul.caps[i])
                          IN canonical_cell(g.mtl, a[1], a[2]) : i \in 1 .. 2}
                    ELSE {}

\* a slip: the displayed value is kept in the overlay
display_effects_cached(g, r, c) ==
    [ws |-> g.ws,
     dirty |-> Override(g.dirty, [x \in {canonical_cell(g.mtl, r, c)} |->
                   display_value(g, dirty_get(g, r, c), r, c, MaxDepth)])]

\* what data(index(r - 1, c - 1), DisplayRole) leaves behind: ws.cell creates
\* the cells it is asked for, empty, and the sheet grows to hold them
display_effects(g, r, c) ==
    LET cc == canonical_cell(g.mtl, r, c)
        asked == IF is_merged_non_topleft(g.mtl, r, c) THEN {}
                 ELSE cells_asked(g, dirty_get(g, cc[1], cc[2]), MaxDepth)
    IN [ws |-> [g.ws EXCEPT
                  !.cells = Override([x \in asked |-> None], @),
                  !.max_row = IF asked = {} THEN @
                              ELSE Max(@, CHOOSE n \in {x[1] : x \in asked} :
                                             \A x \in asked : x[1] <= n),
                  !.max_col = IF asked = {} THEN @
                              ELSE Max(@, CHOOSE n \in {x[2] : x \in asked} :
                                             \A x \in asked : x[2] <= n)],
        dirty |-> g.dirty]

\* the grid model of the handlers: its bounds are those the sheet had when the
\* model was built (self.max_row = ws.max_row in __init__)
GD == [G EXCEPT !.max_row = GridSheet.max_row, !.max_col = GridSheet.max_col]

InitDisplay ==
    /\ ws \in DisplaySheets
    /\ dirty = EmptyMap
    /\ edit_all = FALSE
    /\ editable_cols = find_chargeback_rate_cols(ws)
    /\ merge_top_left = build_merge_cache(ws.merges)
    /\ undo_stack = <<>>
    /\ redo_stack = <<>>
    /\ col_allowed = EmptyMap
    /\ lastCall = Call("init", 0, 0, FALSE)
    /\ nEdits = 0
    /\ onlyEdits = TRUE
    /\ page = NoPage

\* the view reads ExcelSheetModel.data(index(r - 1, c - 1), Qt.DisplayRole)
Data(r, c) ==
    /\ LET res == display_effects(GD, r, c)
       IN ws' = res.ws /\ dirty' = res.dirty
    /\ lastCall' = Call("data", r, c, data(GD, r, c, "display", MaxDepth))
    /\ UNCHANGED <<page, edit_all, editable_cols, merge_top_left, undo_stack, redo_stack,
                   col_allowed, nEdits, onlyEdits>>

DisplayTargets == {FormulaCell, <<9, 2>>, <<6, 2>>}
DisplayEdits == {<<4, 2>>}

NextDisplay ==
    \/ \E rc \in DisplayTargets : Data(rc[1], rc[2])
    \/ \E rc \in DisplayEdits, value \in EditInputs : SetData(rc[1], rc[2], value)
    \/ Undo
    \/ \E on \in BOOLEAN : SetEditAll(on)

SpecDisplay == InitDisplay /\ [][NextDisplay]_vars

\* v, the content of cell (r, c), is exactly one of the four shapes: SUM over
\* a range, SUBTOTAL(9, range), a cell reference to another cell, or
\* <ref>*(<ref>/<divisor>) with a divisor other than 0
IsSupportedShape(v, r, c) ==
    LET s == strip(v.s)
        ref == re_fullmatch(CELL_REF_RE, s)
        mul == re_fullmatch(MUL_DIV_RE, s)
    IN \/ re_fullmatch(<<"=">> \o SUM_RE, s).ok
       \/ re_fullmatch(<<"=">> \o SUBTOTAL_RE, s).ok
       \/ ref.ok /\ addr_to_row_col(ref.caps[1]) # <<r, c>>
       \/ mul.ok /\ mul.caps[3].a # 0

\* the last handler call was a display read of a cell that holds v
DisplayedValue(v) ==
    lastCall.op = "data" /\ dirty_get(GD, lastCall.r, lastCall.c) = v

\* C13: the display read of a cell whose content starts with "=" and is not
\* exactly one of the four supported shapes returns the formula text itself.
C13_UnsupportedFormulaShownAsText ==
    \A v \in UnsupportedFormulas \cup SupportedFormulas :
        (DisplayedValue(v) /\ IsFormula(v)
           /\ ~IsSupportedShape(v, lastCall.r, lastCall.c))
          => lastCall.ret = v

\* the cell values of sheet a are those of sheet b
SameCellValues(a, b) ==
    \A rc \in DOMAIN a.cells \cup DOMAIN b.cells :
        cell_value(a, rc[1], rc[2]) = cell_value(b, rc[1], rc[2])

\* C14: a display read of any cell, whatever formula it evaluates, leaves
\* the cell values of the sheet, the dirty overlay and both history stacks
\* as they were.
C14_DisplayIsReadOnly ==
    [][lastCall'.op = "data"
         => /\ SameCellValues(ws, ws')
            /\ dirty' = dirty
            /\ undo_stack' = undo_stack
            /\ redo_stack' = redo_stack]_vars

\* a display read that followed a cell reference out of the sheet, with an
\* edit in the overlay and in the history
C14_Witness ==
    /\ lastCall.op = "data" /\ <<lastCall.r, lastCall.c>> = FormulaCell
    /\ ws.max_row = 12 /\ ws.max_col = 4
    /\ DOMAIN dirty # {} /\ undo_stack # <<>>

----------------------------------------------------------------------------
(* What a successful set records (specification Spec).                     *)

\* C19: a successful set whose parsed value equals the effective value of
\* the cell (the overlay entry if there is one, else the sheet value) leaves
\* the overlay, UndoStack and RedoStack exactly as they were.
C19_SameValueSetChangesNothing ==
    [][\A rc \in EditTargets, value \in EditInputs :
          (/\ SetData(rc[1], rc[2], value)
           /\ lastCall'.ret = TRUE
           /\ parse_user_input(value) = EffectiveValue(AnchorOf(ws, rc[1], rc[2])))
            => /\ dirty' = dirty
               /\ undo_stack' = undo_stack
               /\ redo_stack' = redo_stack]_vars

\* C20: a successful set that changes the effective value of the cell pushes
\* one EditRecord {anchor row, anchor col, old effective value, new value}
\* onto UndoStack and leaves RedoStack empty.
C20_ChangingSetPushesOneRecord ==
    [][\A rc \in EditTargets, value \in EditInputs :
          LET a == AnchorOf(ws, rc[1], rc[2])
          IN (/\ SetData(rc[1], rc[2], value)
              /\ lastCall'.ret = TRUE
              /\ parse_user_input(value) # EffectiveValue(a))
               => /\ undo_stack' = push(undo_stack,
                                        EditRecord(a[1], a[2], EffectiveValue(a),
                                                   parse_user_input(value)))
                  /\ redo_stack' = <<>>]_vars

----------------------------------------------------------------------------
(* The main page (src/src/gui/pages/main_page.py): the two workbook slots, *)
(* their preprocessed flags, the grid model shown in the table, and the    *)
(* WorkerThread objects that load or preprocess a workbook off the         *)
(* interactive thread.  A thread runs its task_fn and then emits finished  *)
(* or error; the slot connected to the signal runs later, on the           *)
(* interactive thread, between two handlers of user input.                 *)

FileTypes == {"domestic", "overseas"}

\* how many files the user opens and how many times preprocessing is started
MaxLoads == 2
MaxClicks == 2

\* the content of a workbook as far as the page can tell: how many runs of
\* preprocess_inplace have rewritten it, and whether the page has held it
\* while the preprocessed flag of its slot was set
Book(runs, marked) == [runs |-> runs, marked |-> marked]

\* the files of the dialog: the claim sheet as received, and the file that
\* save_as_file wrote, if any
Paths(p) == {"received"} \cup (IF p.saved = <<>> THEN {} ELSE {"saved"})
FileContent(p, path) == IF path = "saved" THEN p.saved[1] ELSE Book(0, FALSE)

wb_of(p, file_type) ==
    IF file_type = "domestic" THEN p.wb_domestic ELSE p.wb_overseas

preprocessed_of(p, file_type) ==
    IF file_type = "domestic" THEN p.preprocessed_domestic
    ELSE p.preprocessed_overseas

\* WorkerThread(task_fn, *args): wb is the workbook handed to
\* preprocess_inplace, path the file handed to load_workbook_safe
WorkerThread(id, fn, file_type, wb, path) ==
    [id |-> id, fn |-> fn, file_type |-> file_type, wb |-> wb, path |-> path,
     st |-> "running", book |-> Book(0, FALSE)]

\* the workbooks a preprocess thread of ts has been started on and whose
\* completion or failure the page has not handled yet
Busy(ts) == {t.wb : t \in {u \in ts : u.fn = "preprocess"}}

\* a handler of the interactive thread reads or writes the workbooks wbs
touch(p, wbs) == [p EXCEPT !.raced = @ \cup ((wbs \ {0}) \cap Busy(p.tasks))]

\* `if self.model: self.model.apply_dirty_to_sheet()`
flush_model(p) == IF p.model # 0 THEN touch(p, {p.model}) ELSE p

\* MainPageWidget._update_preprocess_button_state
update_preprocess_button_state(p) ==
    [p EXCEPT !.btn_preprocess =
        IF p.current_sheet = "" THEN FALSE
        ELSE ~preprocessed_of(p, p.current_sheet)]

\* MainPageWidget.load_sheet: a new ExcelSheetModel over the sheet, which
\* reads the sheet's merged ranges and header row
load_sheet(p, sheet_display_name) ==
    IF sheet_display_name \notin FileTypes \/ wb_of(p, sheet_display_name) = 0
    THEN p
    ELSE touch([p EXCEPT !.model = wb_of(p, sheet_display_name)],
               {wb_of(p, sheet_display_name)})

\* MainPageWidget.on_sheet_changed
on_sheet_changed(p, sheet_name) ==
    update_preprocess_button_state(
        load_sheet([flush_model(p) EXCEPT !.current_sheet = sheet_name],
                   sheet_name))


\* MainPageWidget.open_file, once the dialog has returned a path
open_file(p, file_type, path) ==
    [p EXCEPT !.raced = {},
              !.tasks = @ \cup {WorkerThread(p.n_tasks + 1, "load", file_type, 0, path)},
              !.load_worker = p.n_tasks + 1,
              !.n_tasks = @ + 1,
              !.n_loads = @ + 1]

\* MainPageWidget._on_load_finished for the thread t.  _update_sheet_list
\* refills the combo box with its signals blocked, which leaves the first
\* item current; setCurrentIndex then emits currentTextChanged, and so runs
\* on_sheet_changed, only when the sheet looked for is not that first item.
on_load_finished(p, t) ==
    LET id == Len(p.books) + 1
        p1 == [p EXCEPT
                 !.raced = {},
                 !.tasks = @ \ {t},
                 !.books = Append(@, t.book),
                 !.wb_domestic = IF t.file_type = "domestic" THEN id ELSE @,
                 !.wb_overseas = IF t.file_type = "overseas" THEN id ELSE @,
                 !.preprocessed_domestic =
                     IF t.file_type = "domestic" THEN FALSE ELSE @,
                 !.preprocessed_overseas =
                     IF t.file_type = "overseas" THEN FALSE ELSE @]
        moved == t.file_type = "overseas" /\ p1.wb_domestic # 0
        p2 == IF moved THEN on_sheet_changed(p1, t.file_type)
              ELSE [p1 EXCEPT !.current_sheet = t.file_type]
    IN update_preprocess_button_state(load_sheet(p2, t.file_type))

\* MainPageWidget.on_preprocess_clicked
on_preprocess_clicked(p) ==
    LET file_type == p.current_sheet
        wb == wb_of(p, file_type)
        p1 == flush_model([p EXCEPT !.raced = {}])
    IN IF file_type = "" \/ wb = 0 \/ preprocessed_of(p, file_type)
       THEN [p EXCEPT !.raced = {}]
       ELSE [p1 EXCEPT
               !.model = 0,
               !.tasks = @ \cup {WorkerThread(p.n_tasks + 1, "preprocess",
                                              file_type, wb, "")},
               !.process_worker = p.n_tasks + 1,
               !.n_tasks = @ + 1,
               !.n_clicks = @ + 1]

\* MainPageWidget._on_preprocess_finished for the thread t: the flag of the
\* file type the thread was started for is set, whatever workbook that slot
\* holds by now, and the sheet that was current at the click is shown again
on_preprocess_finished(p, t) ==
    LET wb == wb_of(p, t.file_type)
        p1 == [p EXCEPT
                 !.raced = {},
                 !.tasks = @ \ {t},
                 !.books = [@ EXCEPT ![wb].marked = TRUE],
                 !.preprocessed_domestic =
                     IF t.file_type = "domestic" THEN TRUE ELSE @,
                 !.preprocessed_overseas =
                     IF t.file_type = "overseas" THEN TRUE ELSE @]
    IN load_sheet(update_preprocess_button_state(p1), t.file_type)

\* MainPageWidget._on_worker_error for the thread t
on_worker_error(p, t) == [p EXCEPT !.raced = {}, !.tasks = @ \ {t}]

\* MainPageWidget.save_as_file, once the dialog has returned a path: with
\* both slots filled the sheets of both workbooks are copied into one new
\* workbook, those of the domestic workbook first
save_as_file(p) ==
    LET p1 == flush_model([p EXCEPT !.raced = {}])
        first == IF p.wb_domestic # 0 THEN p.wb_domestic ELSE p.wb_overseas
    IN [touch(p1, {p.wb_domestic, p.wb_overseas}) EXCEPT
          !.saved = <<p.books[first]>>]


\* MainPageWidget.on_undo (on_redo and on_edit_mode_changed alike): the
\* model, when there is one, is asked to work on its sheet
on_undo(p) == flush_model([p EXCEPT !.raced = {}])

\* WorkerThread.run for the thread t: task_fn returns (ok) or raises.
\* load_workbook_safe reads the file; preprocess_inplace rewrites the
\* workbook it was given, in place.
run(p, t, ok) ==
    LET st == IF ok THEN "finished" ELSE "error"
        done == [t EXCEPT !.st = st, !.book = FileContent(p, t.path)]
    IN [p EXCEPT
          !.tasks = (@ \ {t}) \cup {done},
          !.books = IF t.fn = "preprocess" /\ ok
                    THEN [@ EXCEPT ![t.wb].runs = @ + 1] ELSE @]

\* the user picks a file in the dialog of one of the two upload buttons
OpenFile(file_type, path) ==
    /\ page.alive /\ page.n_loads < MaxLoads
    /\ page' = open_file(page, file_type, path)
    /\ UNCHANGED gridVars

\* a worker thread runs its task to the end
Run(t, ok) ==
    /\ page.alive /\ t.st = "running"
    /\ page' = run(page, t, ok)
    /\ UNCHANGED gridVars

\* the finished signal of a load thread is delivered
OnLoadFinished(t) ==
    /\ page.alive /\ t.st = "finished" /\ t.fn = "load"
    /\ page' = on_load_finished(page, t)
    /\ UNCHANGED gridVars

\* the finished signal of a preprocess thread is delivered
OnPreprocessFinished(t) ==
    /\ page.alive /\ t.st = "finished" /\ t.fn = "preprocess"
    /\ page' = on_preprocess_finished(page, t)
    /\ UNCHANGED gridVars

\* the error signal of a thread is delivered
OnWorkerError(t) ==
    /\ page.alive /\ t.st = "error"
    /\ page' = on_worker_error(page, t)
    /\ UNCHANGED gridVars

\* the user presses the preprocess button, which takes it being enabled
OnPreprocessClicked ==
    /\ page.alive /\ page.btn_preprocess /\ page.n_clicks < MaxClicks
    /\ page' = on_preprocess_clicked(page)
    /\ UNCHANGED gridVars

\* the user picks another sheet in the combo box
OnSheetChanged(sheet_name) ==
    /\ page.alive
    /\ sheet_name # page.current_sheet /\ wb_of(page, sheet_name) # 0
    /\ page' = on_sheet_changed([page EXCEPT !.raced = {}], sheet_name)
    /\ UNCHANGED gridVars

\* the user presses the export button and picks a path
SaveAsFile ==
    /\ page.alive
    /\ page.wb_domestic # 0 \/ page.wb_overseas # 0
    /\ page' = save_as_file(page)
    /\ UNCHANGED gridVars

\* the user presses undo
OnUndo ==
    /\ page.alive
    /\ page' = on_undo(page)
    /\ UNCHANGED gridVars

\* open_file and on_preprocess_clicked overwrite self.load_worker and
\* self.process_worker: a thread started earlier and not yet handled loses
\* its only reference.  Once its run has returned the QThread object may be
\* destroyed before its signal is delivered: the signal is lost, or Qt
\* aborts the process ("destroyed while thread is still running").
OrphanDestroyed(t, outcome) ==
    /\ page.alive /\ t.st # "running"
    /\ t.id \notin {page.load_worker, page.process_worker}
    /\ page' = IF outcome = "abort" THEN [page EXCEPT !.alive = FALSE]
               ELSE [page EXCEPT !.tasks = @ \ {t}]
    /\ UNCHANGED gridVars

NextPage ==
    \/ \E file_type \in FileTypes, path \in Paths(page) : OpenFile(file_type, path)
    \/ \E t \in page.tasks, ok \in BOOLEAN : Run(t, ok)
    \/ \E t \in page.tasks : OnLoadFinished(t)
    \/ \E t \in page.tasks : OnPreprocessFinished(t)
    \/ \E t \in page.tasks : OnWorkerError(t)
    \/ OnPreprocessClicked
    \/ \E sheet_name \in FileTypes : OnSheetChanged(sheet_name)
    \/ SaveAsFile
    \/ OnUndo
    \/ \E t \in page.tasks, outcome \in {"lost", "abort"} : OrphanDestroyed(t, outcome)

SpecPage == Init /\ [][NextPage]_vars


----------------------------------------------------------------------------
(* The preprocess guard of the page, and the worker threads.               *)

\* C12: the preprocess guard only ever goes from unprocessed to
\* preprocessed.  A workbook the page has once marked preprocessed counts
\* as preprocessed whenever it is loaded, also after it was saved and the
\* saved file was loaded again: the mark travels with the file.
C12_GuardIsOneWay ==
    \A file_type \in FileTypes :
        (wb_of(page, file_type) # 0 /\ page.books[wb_of(page, file_type)].marked)
            => preprocessed_of(page, file_type)

\* the page has handled the event of a preprocess thread in this step
IsPreprocessFinishedStep ==
    \E t \in page.tasks : OnPreprocessFinished(t)

\* C16: while a preprocess thread works on a workbook and has not reported
\* back, no handler of the interactive thread touches that workbook and no
\* grid model is held over it; the model is there again once the thread has
\* reported completion.
C16_ForegroundKeepsOffBusyWorkbook ==
    /\ [](page.raced = {} /\ page.model \notin Busy(page.tasks))
    /\ [][IsPreprocessFinishedStep => page'.model # 0]_vars

\* the preprocess threads started on workbook wb and not yet handled
InFlight(wb) == {t \in page.tasks : t.fn = "preprocess" /\ t.wb = wb}

\* C17: at most one preprocess thread is in flight on a workbook at any
\* time.
C17_OnePreprocessInFlight ==
    \A wb \in 1..Len(page.books) : Cardinality(InFlight(wb)) <= 1

\* C18: the preprocessed flag of a file type is set only while the workbook
\* in the slot of that file type has been rewritten by a preprocess run.
C18_FlagDescribesLoadedWorkbook ==
    \A file_type \in FileTypes :
        preprocessed_of(page, file_type)
            => /\ wb_of(page, file_type) # 0
               /\ page.books[wb_of(page, file_type)].runs >= 1


----------------------------------------------------------------------------
(* Undo and redo against the sheet (specification Spec).                   *)

\* get(r, c) on the model m: the overlay entry of the cell, else the sheet's
EffectiveIn(m, rc) ==
    IF rc \in DOMAIN m.dirty THEN m.dirty[rc] ELSE cell_value(m.ws, rc[1], rc[2])

\* the model m after apply_dirty_to_sheet, when flush says it was called
Flushed(m, flush) ==
    IF flush THEN [m EXCEPT !.ws = apply_dirty_to_sheet(m.ws, m.dirty)] ELSE m

\* C21: in any state the model can reach by edits, undo, redo and
\* apply_dirty_to_sheet, an edit that changes the value of a cell and is
\* recorded with the value the cell had, followed or not by
\* apply_dirty_to_sheet, is taken back by undo(): the anchor reads the
\* value it had before the edit; a following redo() makes it read the
\* edit's new value.
C21_UndoRestoresRedoReapplies ==
    \A rc \in EditTargets, value \in EditInputs, flush \in BOOLEAN :
        LET a == canonical_cell(merge_top_left, rc[1], rc[2])
            before == EffectiveIn(M, a)
            new_val == parse_user_input(value)
            res == setData(M, rc[1], rc[2], value)
            m1 == Flushed(ModelAfter(M, res), flush)
            m2 == ModelAfter(m1, undo(m1))
            m3 == ModelAfter(m2, redo(m2))
        IN (/\ res.ret /\ new_val # before /\ Len(res.undo) > 0
            /\ res.undo[Len(res.undo)] = EditRecord(a[1], a[2], before, new_val))
              => /\ EffectiveIn(m2, a) = before
                 /\ EffectiveIn(m3, a) = new_val


\* the coordinate is an unmerged cell or the anchor of a merge range
IsCanonical(rc) == ~IsSecondary(ws, rc[1], rc[2])

\* C22: every key of the overlay, and the coordinate of every EditRecord on
\* UndoStack and RedoStack, is an unmerged cell or the anchor of a merge
\* range, never a secondary merged cell.
C22_OverlayKeysAreCanonical ==
    /\ \A rc \in DOMAIN dirty : IsCanonical(rc)
    /\ \A i \in 1 .. Len(undo_stack) :
          IsCanonical(<<undo_stack[i].row, undo_stack[i].col>>)
    /\ \A i \in 1 .. Len(redo_stack) :
          IsCanonical(<<redo_stack[i].row, redo_stack[i].col>>)

\* C22's case: the anchor C5 of the merged block C5:C6 has an overlay entry
\* and a record on each stack, and a set on the secondary cell C6 was made
C22_Witness ==
    /\ lastCall.op = "setData" /\ IsSecondary(ws, lastCall.r, lastCall.c)
    /\ <<5, 3>> \in DOMAIN dirty /\ InSomeRange(ws, 5, 3)
    /\ \E i \in 1 .. Len(undo_stack) : undo_stack[i].row = 5 /\ undo_stack[i].col = 3
    /\ \E i \in 1 .. Len(redo_stack) : redo_stack[i].row = 5 /\ redo_stack[i].col = 3


----------------------------------------------------------------------------
(* unmerge_and_fill_column on its own (specification SpecUnmerge): a sheet *)
(* of UnmergeRows rows and two columns with up to UnmergeRanges merge      *)
(* ranges is handed to the function with a target column, a first data row *)
(* and a last row.                                                         *)

UnmergeRows == 4
UnmergeRanges == 2

UnmergeCells == (1 .. UnmergeRows) \X (1 .. 2)

\* every merge range of such a sheet: a rectangle of at least two cells
UnmergeRects ==
    {mr \in [min_row : 1 .. UnmergeRows, min_col : 1 .. 2,
             max_row : 1 .. UnmergeRows, max_col : 1 .. 2] :
        /\ mr.min_row <= mr.max_row /\ mr.min_col <= mr.max_col
        /\ <<mr.min_row, mr.min_col>> # <<mr.max_row, mr.max_col>>}

\* ws.merged_cells.ranges: ranges that do not overlap, in any order
UnmergeLayouts ==
    {layout \in UNION {[1 .. n -> UnmergeRects] : n \in 0 .. UnmergeRanges} :
        \A i, j \in DOMAIN layout : i < j => ~Overlap(layout[i], layout[j])}

\* the cells the sheet has left empty: none, or one of them
BlankChoices == {{}} \cup {{rc} : rc \in UnmergeCells}

\* the sheet: a number in every cell but the MergedCells and the blank ones
UnmergeSheet(layout, blank) ==
    [cells |-> [rc \in UnmergeCells |->
                   IF rc \in blank \/ is_merged_cell([merges |-> layout], rc[1], rc[2])
                   THEN None ELSE Num(rc[1] * 10 + rc[2])],
     fills |-> {}, merges |-> layout,
     max_row |-> UnmergeRows, max_col |-> 2]

InitUnmerge ==
    /\ ws \in {UnmergeSheet(layout, blank) :
                  layout \in UnmergeLayouts, blank \in BlankChoices}
    /\ dirty = EmptyMap
    /\ edit_all = FALSE
    /\ editable_cols = {}
    /\ merge_top_left = EmptyMap
    /\ undo_stack = <<>>
    /\ redo_stack = <<>>
    /\ col_allowed = EmptyMap
    /\ lastCall = Call("load_workbook", 0, 0, "none")
    /\ nEdits = 0
    /\ onlyEdits = TRUE
    /\ page = NoPage

\* unmerge_and_fill_column(ws, target_col, data_start_row, last_row), once;
\* lastCall keeps data_start_row in r, target_col in c, and in ret the
\* last_row and the sheet as it was handed over
UnmergeAndFillColumn(target_col, data_start_row, last_row) ==
    /\ lastCall.op = "load_workbook"
    /\ ws' = unmerge_and_fill_column(ws, target_col, data_start_row, last_row)
    /\ lastCall' = Call("unmerge_and_fill_column", data_start_row, target_col,
                        [last_row |-> last_row, ws |-> ws])
    /\ UNCHANGED <<page, dirty, edit_all, editable_cols, merge_top_left, undo_stack,
                   redo_stack, col_allowed, nEdits, onlyEdits>>

NextUnmerge ==
    \E target_col \in 1 .. 2, data_start_row \in {2, 3},
       last_row \in {UnmergeRows - 1, UnmergeRows} :
        UnmergeAndFillColumn(target_col, data_start_row, last_row)

SpecUnmerge == InitUnmerge /\ [][NextUnmerge]_vars


\* the call of unmerge_and_fill_column has been made
Unmerged == lastCall.op = "unmerge_and_fill_column"

\* the range has a cell of column target_col in row data_start_row or below
MeetsColumnBelow(mr, target_col, data_start_row) ==
    /\ mr.min_col <= target_col /\ target_col <= mr.max_col
    /\ mr.max_row >= data_start_row

\* the range has a cell in column target_col and starts in row
\* data_start_row or below
LiesInColumnBelow(mr, target_col, data_start_row) ==
    /\ mr.min_col <= target_col /\ target_col <= mr.max_col
    /\ mr.min_row >= data_start_row

\* the ranges of a sheet, as a set
RangesOf(w) == {w.merges[i] : i \in 1 .. Len(w.merges)}

\* outside rows data_start_row..last_row of column target_col, no cell of
\* the sheet before has another value after
SameOutside(before, after, target_col, data_start_row, last_row) ==
    \A rc \in DOMAIN before.cells :
        (rc[2] # target_col \/ rc[1] < data_start_row \/ rc[1] > last_row)
            => cell_value(after, rc[1], rc[2]) = before.cells[rc]

\* C23 as stated: every merge range with a cell of the target column in row
\* data_start_row or below is unmerged, and the cells of its rows up to
\* last_row in the target column hold the value its anchor had; every other
\* range, and every cell outside the target column's rows
\* data_start_row..last_row, is as it was.
C23_UnmergeFillsAnchorValue ==
    Unmerged =>
        LET before == lastCall.ret.ws
            target_col == lastCall.c
            data_start_row == lastCall.r
            last_row == lastCall.ret.last_row
        IN /\ \A mr \in RangesOf(before) :
                IF MeetsColumnBelow(mr, target_col, data_start_row)
                THEN /\ mr \notin RangesOf(ws)
                     /\ \A r \in mr.min_row .. Min(mr.max_row, last_row) :
                           cell_value(ws, r, target_col)
                             = cell_value(before, mr.min_row, mr.min_col)
                ELSE mr \in RangesOf(ws)
           /\ SameOutside(before, ws, target_col, data_start_row, last_row)

\* C23, amended: the ranges that are unmerged are those that have a cell in
\* the target column and start in row data_start_row or below.  The cells
\* of their rows up to last_row in the target column hold the anchor's
\* value when it is not blank; when it is blank the forward fill gives each
\* of them the value of the cell above it, provided that cell is a data row
\* and not blank, and leaves it blank otherwise.  Every other range, and
\* every cell outside the target column's rows data_start_row..last_row, is
\* as it was.
C23_UnmergeFillsThenForwardFills ==
    Unmerged =>
        LET before == lastCall.ret.ws
            target_col == lastCall.c
            data_start_row == lastCall.r
            last_row == lastCall.ret.last_row
        IN /\ \A mr \in RangesOf(before) :
                IF LiesInColumnBelow(mr, target_col, data_start_row)
                THEN /\ mr \notin RangesOf(ws)
                     /\ \A r \in mr.min_row .. Min(mr.max_row, last_row) :
                           LET top_left == cell_value(before, mr.min_row, mr.min_col)
                               above == cell_value(ws, r - 1, target_col)
                           IN cell_value(ws, r, target_col)
                                = IF is_blank(top_left) /\ r > data_start_row
                                       /\ ~is_blank(above)
                                  THEN above ELSE top_left
                ELSE mr \in RangesOf(ws)
           /\ SameOutside(before, ws, target_col, data_start_row, last_row)

\* C23's case: the sheet had a range of two columns with a number in its
\* anchor, lying in the data rows and reaching below last_row, and another
\* range; the call has unmerged the first and kept the second
C23_Witness ==
    /\ Unmerged
    /\ \E mr \in RangesOf(lastCall.ret.ws) :
          /\ LiesInColumnBelow(mr, lastCall.c, lastCall.r)
          /\ mr.min_col < mr.max_col /\ mr.max_row > lastCall.ret.last_row
          /\ ~is_blank(cell_value(lastCall.ret.ws, mr.min_row, mr.min_col))
          /\ mr \notin RangesOf(ws)
          /\ cell_value(ws, mr.min_row, lastCall.c)
               = cell_value(lastCall.ret.ws, mr.min_row, mr.min_col)
    /\ ws.merges # <<>>

----------------------------------------------------------------------------
(* The warranty pass (specification SpecWarranty): sheets with the header  *)
(* in row 3 and data rows from row 4, whose rows breach the mileage rule,  *)
(* the period rule, both or none, with rate cells of several contents and  *)
(* the rate cells of the first two rows merged or not;                     *)
(* apply_warranty_filters_ws is called once on the rows iter_data_rows     *)
(* yields.                                                                 *)

\* the number of data rows of the sheet
WarrantyRows == 3

WarrantyColumns == <<"repair", "sale", "mileage", "rate">>

\* what a row holds in its mileage and sale-date cells: below both limits,
\* mileage over the threshold, period over the limit, both, or unparseable
WarrantyKinds == {"none", "km", "period", "both", "bad"}

\* what a rate cell holds: 50, 0, the texts "0" and "1,000", nothing
RateChoices == {Num(50), Num(0), Str(<<Dig(0)>>), Str(<<DigC(1000)>>), None}

KindMileage(kind) ==
    CASE kind = "none" -> Num(MILEAGE_THRESHOLD - 1)
      [] kind = "km" -> Str(<<DigC(60000)>>)
      [] kind = "period" -> Num(10)
      [] kind = "both" -> Num(MILEAGE_THRESHOLD)
      [] OTHER -> T("x")

KindSale(kind) ==
    CASE kind = "none" -> Date(RepairDay - (WARRANTY_YEARS * 365 - 1))
      [] kind = "km" -> Date(RepairDay - 100)
      [] kind = "period" -> Date(RepairDay - WARRANTY_YEARS * 365)
      [] kind = "both" -> Num(20230101)
      [] OTHER -> T("x")

\* what varies from sheet to sheet: the first two rows take every kind and
\* rate, the rows below them are at rate 50 and breach the mileage rule or
\* nothing
WarrantyOptions ==
    [top : [DATA_START_ROW .. DATA_START_ROW + 1 -> WarrantyKinds \X RateChoices],
     rest : [DATA_START_ROW + 2 .. DATA_START_ROW + WarrantyRows - 1 -> {"none", "km"}],
     merged : BOOLEAN]

WarrantySheet(o) ==
    LET last == DATA_START_ROW + WarrantyRows - 1
        kind(r) == IF r <= DATA_START_ROW + 1 THEN o.top[r][1] ELSE o.rest[r]
        rate(r) == CASE o.merged /\ r = DATA_START_ROW + 1 -> None
                     [] r <= DATA_START_ROW + 1 -> o.top[r][2]
                     [] OTHER -> Num(50)
        header == [rc \in {HEADER_ROW} \X (1 .. 4) |-> HeaderText(WarrantyColumns[rc[2]])]
        rows == [rc \in (DATA_START_ROW .. last) \X (1 .. 4) |->
                    CASE rc[2] = 1 -> Date(RepairDay)
                      [] rc[2] = 2 -> KindSale(kind(rc[1]))
                      [] rc[2] = 3 -> KindMileage(kind(rc[1]))
                      [] OTHER -> rate(rc[1])]
    IN [cells |-> Override([rc \in (1 .. last) \X (1 .. 4) |-> None],
                           (<<1, 1>> :> T("title")) @@ header @@ rows),
        fills |-> {},
        merges |-> IF o.merged
                   THEN <<Range(DATA_START_ROW, 4, DATA_START_ROW + 1, 4)>> ELSE <<>>,
        max_row |-> last, max_col |-> 4]

InitWarranty ==
    /\ ws \in {WarrantySheet(o) : o \in WarrantyOptions}
    /\ dirty = EmptyMap
    /\ edit_all = FALSE
    /\ editable_cols = {}
    /\ merge_top_left = EmptyMap
    /\ undo_stack = <<>>
    /\ redo_stack = <<>>
    /\ col_allowed = EmptyMap
    /\ lastCall = Call("load_workbook", 0, 0, "none")
    /\ nEdits = 0
    /\ onlyEdits = TRUE
    /\ page = NoPage

\* the warranty step of process_wb_inplace: the data rows are the rows with
\* a repair date, changed_rows starts empty; the log keeps the sheet before
\* the call, the data rows and changed_rows after it
ApplyWarrantyFilters ==
    /\ lastCall.op = "load_workbook"
    /\ LET anchor_col == find_col_by_keywords_ws(ws, HEADER_ROW, ANCHOR_KEYS, "any")
           data_rows == iter_data_rows(ws, DATA_START_ROW, ws.max_row, anchor_col)
           res == apply_warranty_filters_ws(ws, HEADER_ROW, data_rows,
                                            MILEAGE_THRESHOLD, WARRANTY_YEARS)
       IN /\ ws' = res.ws
          /\ lastCall' = Call("apply_warranty_filters_ws", 0, res.rate_col,
                              [changed |-> res.changed, err |-> res.err, ws |-> ws,
                               data_rows |-> data_rows])
    /\ UNCHANGED <<dirty, edit_all, editable_cols, merge_top_left, undo_stack,
                   redo_stack, col_allowed, nEdits, onlyEdits, page>>

NextWarranty == ApplyWarrantyFilters

SpecWarranty == InitWarranty /\ [][NextWarranty]_vars

\* a rule of the pass applies to row r of sheet w
RuleFires(w, r) == MileageBreach(w, r) \/ PeriodBreach(w, r)

\* the content v is a number equal to 0, thousands separators ignored
NumericallyZero(v) ==
    \/ v.k = "num" /\ v.n = 0
    \/ v.k = "str" /\ IsNumberText(strip(v.s)) /\ strip(v.s)[1].a = 0

\* the cell that holds the rate of row r: the top-left cell of its block
RateCell(w, r) == resolve_merged_anchor(w, r, ColumnOf(w, "rate"))

\* the content of the rate cell of row r when the pass comes to row r: 0
\* once a rule fired on a row above that shares the cell
RateWhenReached(w, rows, r) ==
    IF \E q \in rows : q < r /\ RuleFires(w, q) /\ RateCell(w, q) = RateCell(w, r)
    THEN Num(0)
    ELSE cell_value(w, RateCell(w, r)[1], RateCell(w, r)[2])

\* the state follows a warranty pass that returned
AfterWarrantyPass == lastCall.op = "apply_warranty_filters_ws" /\ lastCall.ret.err = "none"

RowsOf(data_rows) == {data_rows[i] : i \in 1 .. Len(data_rows)}

C25_RowWithoutRuleIsUntouched ==
    lastCall.op = "apply_warranty_filters_ws" =>
        LET before == lastCall.ret.ws
            rows == RowsOf(lastCall.ret.data_rows)
            rate_col == ColumnOf(before, "rate")
        IN /\ lastCall.ret.err = "none"
           /\ \A r \in rows :
                 IF RuleFires(before, r)
                 THEN NumericallyZero(cell_value(ws, RateCell(before, r)[1], rate_col))
                 ELSE /\ cell_value(ws, r, rate_col) = cell_value(before, r, rate_col)
                      /\ {a \in ws.fills : a[1] = r} = {a \in before.fills : a[1] = r}
                      /\ r \notin lastCall.ret.changed

----------------------------------------------------------------------------
(* Formula synthesis (specification SpecSynth): sheets with the header in  *)
(* row 3 and data from row 4, rows with and without a repair date, the     *)
(* chargeback cells of two rows merged or not, a title over rows 1..2      *)
(* merged or not, and the cell above the occurrence header blank or not;   *)
(* the three formula steps of process_wb_inplace run one after the other.  *)

\* the number of rows below the header
SynthRows == 3

SynthColumns == <<"repair", "memo", "occ", "chb", "rate">>

\* what varies from sheet to sheet: the rows that carry a repair date, the
\* first row of a two-row merged block in the chargeback column (0: none),
\* the last row of the merged title block A1:E1 or A1:E2 (0: none), the
\* title, and the content of the cell above the occurrence header
SynthOptions ==
    [dated : SUBSET (DATA_START_ROW .. DATA_START_ROW + SynthRows - 1),
     chb_block : {0} \cup (DATA_START_ROW .. DATA_START_ROW + SynthRows - 2),
     title_rows : {0, 1, 2},
     title : {None, T("title")},
     above : {None, T("hapgye")}]

SynthSheet(o) ==
    LET last == DATA_START_ROW + SynthRows - 1
        header == [rc \in {HEADER_ROW} \X (1 .. 5) |-> HeaderText(SynthColumns[rc[2]])]
        rows == [rc \in (DATA_START_ROW .. last) \X (1 .. 5) |->
                    CASE rc[2] = 1 -> IF rc[1] \in o.dated THEN Date(RepairDay) ELSE None
                      [] rc[2] = 3 -> Num(100 * rc[1])
                      [] rc[2] = 5 -> Num(50)
                      [] OTHER -> None]
        above == IF o.title_rows = 2 THEN None ELSE o.above
    IN [cells |-> Override([rc \in (1 .. last) \X (1 .. 5) |-> None],
                           (<<1, 1>> :> o.title) @@ (<<HEADER_ROW - 1, 3>> :> above)
                             @@ header @@ rows),
        fills |-> {},
        merges |-> (IF o.title_rows = 0 THEN <<>> ELSE <<Range(1, 1, o.title_rows, 5)>>)
                     \o (IF o.chb_block = 0 THEN <<>>
                         ELSE <<Range(o.chb_block, 4, o.chb_block + 1, 4)>>),
        max_row |-> last, max_col |-> 5]

InitSynth ==
    /\ ws \in {SynthSheet(o) : o \in SynthOptions}
    /\ dirty = EmptyMap
    /\ edit_all = FALSE
    /\ editable_cols = {}
    /\ merge_top_left = EmptyMap
    /\ undo_stack = <<>>
    /\ redo_stack = <<>>
    /\ col_allowed = EmptyMap
    /\ lastCall = Call("load_workbook", 0, 0, "none")
    /\ nEdits = 0
    /\ onlyEdits = TRUE
    /\ page = NoPage

\* the columns process_wb_inplace and apply_warranty_filters_ws look up
synth_cols(w) ==
    [occ |-> find_col_by_keywords_ws(w, HEADER_ROW, OCC_KEYS, "any"),
     chb |-> find_col_by_keywords_ws(w, HEADER_ROW, CHB_KEYS, "any"),
     anchor |-> find_col_by_keywords_ws(w, HEADER_ROW, ANCHOR_KEYS, "any"),
     rate |-> find_col_by_keywords_ws(w, HEADER_ROW, RATE_KEYS, "any")]

\* the log of a step: the sheet before it, the data rows and the columns
StepLog(w, data_rows, cols) == [ws |-> w, data_rows |-> data_rows, cols |-> cols]

\* set_chargeback_formula_rows as process_wb_inplace calls it
SetChargebackFormulaRows ==
    /\ lastCall.op = "load_workbook"
    /\ LET c == synth_cols(ws)
           last_row_guess == guess_last_data_row(ws, DATA_START_ROW, c.anchor, EMPTY_RUN)
           data_rows == iter_data_rows(ws, DATA_START_ROW, last_row_guess, c.anchor)
       IN /\ ws' = set_chargeback_formula_rows(ws, data_rows, 1, c.occ, c.rate, c.chb)
          /\ lastCall' = Call("set_chargeback_formula_rows", 0, c.chb,
                              StepLog(ws, data_rows, c))
    /\ UNCHANGED <<dirty, edit_all, editable_cols, merge_top_left, undo_stack,
                   redo_stack, col_allowed, nEdits, onlyEdits, page>>

\* add_sum_rows as process_wb_inplace calls it
AddSumRows ==
    /\ lastCall.op = "set_chargeback_formula_rows"
    /\ LET c == lastCall.ret.cols
           data_rows == lastCall.ret.data_rows
       IN /\ ws' = add_sum_rows(ws, data_rows, c.occ, c.chb).ws
          /\ lastCall' = Call("add_sum_rows", 0, c.occ, StepLog(ws, data_rows, c))
    /\ UNCHANGED <<dirty, edit_all, editable_cols, merge_top_left, undo_stack,
                   redo_stack, col_allowed, nEdits, onlyEdits, page>>

\* set_subtotal_if_empty as process_wb_inplace calls it
SetSubtotalIfEmpty ==
    /\ lastCall.op = "add_sum_rows"
    /\ LET c == lastCall.ret.cols
           data_rows == lastCall.ret.data_rows
       IN /\ ws' = set_subtotal_if_empty(ws, c.occ, data_rows, HEADER_ROW - 1, TRUE)
          /\ lastCall' = Call("set_subtotal_if_empty", HEADER_ROW - 1, c.occ,
                              StepLog(ws, data_rows, c))
    /\ UNCHANGED <<dirty, edit_all, editable_cols, merge_top_left, undo_stack,
                   redo_stack, col_allowed, nEdits, onlyEdits, page>>

NextSynth == SetChargebackFormulaRows \/ AddSumRows \/ SetSubtotalIfEmpty

SpecSynth == InitSynth /\ [][NextSynth]_vars

\* C26: after set_chargeback_formula_rows, the chargeback cell of every row
\* with a non-blank anchor cell holds =<occurrence cell>*(<rate cell>/100)
\* with both addresses in that row, and the chargeback cell of every other
\* row is as it was.
C26_ChargebackFormulaPerDataRow ==
    lastCall.op = "set_chargeback_formula_rows" =>
        LET before == lastCall.ret.ws
            occ == ColumnOf(before, "occ")
            rate == ColumnOf(before, "rate")
            chb == ColumnOf(before, "chb")
        IN \A r \in 1 .. ws.max_row :
              IF r \in DataRowsOf(before)
              THEN cell_value(ws, r, chb)
                     = ChargebackFormula(coordinate(r, occ), coordinate(r, rate))
              ELSE cell_value(ws, r, chb) = cell_value(before, r, chb)


\* the state follows add_sum_rows on a sheet with data rows
AfterSumRows == lastCall.op = "add_sum_rows" /\ lastCall.ret.data_rows # <<>>

\* the two totals with their labels are in rows last + k and last + k + m of
\* sheet w, last the last data row
TotalsAt(w, before, k, m) ==
    LET occ == ColumnOf(before, "occ")
        chb == ColumnOf(before, "chb")
        first == SetMin(DataRowsOf(before))
        last == -SetMin({-r : r \in DataRowsOf(before)})
    IN /\ cell_value(w, last + k, occ)
            = SumFormula(coordinate(first, occ), coordinate(last, occ))
       /\ cell_value(w, last + k, occ - 1) = Str(<<W("balsaeng"), W("geumaek")>>)
       /\ cell_value(w, last + k + m, chb)
            = SumFormula(coordinate(first, chb), coordinate(last, chb))
       /\ cell_value(w, last + k + m, chb - 1) = Str(<<W("gusang"), W("geumaek")>>)

\* C27 as stated: after add_sum_rows, the SUM totals of the occurrence
\* column and of the chargeback column over first:last, each with its label
\* in the column to its left, are two rows below the last data row.
C27_TotalsTwoRowsBelow ==
    AfterSumRows => TotalsAt(ws, lastCall.ret.ws, 2, 0) \/ TotalsAt(ws, lastCall.ret.ws, 2, 1)

\* C27 amended: after add_sum_rows, the SUM total of the occurrence column
\* is three rows below the last data row and the SUM total of the chargeback
\* column four rows below it, both over first:last, each with its label in
\* the column to its left.
C27_TotalsThreeRowsBelow ==
    AfterSumRows => TotalsAt(ws, lastCall.ret.ws, 3, 1)

\* add_sum_rows has written totals below a sheet whose data rows are not
\* all the rows below the header
C27_Witness ==
    /\ AfterSumRows
    /\ DataRowsOf(lastCall.ret.ws) = {DATA_START_ROW, DATA_START_ROW + 1}
    /\ IsFormula(cell_value(ws, DATA_START_ROW + 4, 3))
    /\ IsFormula(cell_value(ws, DATA_START_ROW + 5, 4))

\* what the location (r, c) of sheet w shows: the value of its block's
\* top-left cell
ShownAt(w, r, c) ==
    LET a == resolve_merged_anchor(w, r, c) IN cell_value(w, a[1], a[2])

\* C28: after set_subtotal_if_empty on a sheet with data rows, when the
\* location one row above the occurrence header showed non-blank content no
\* cell value has changed, and when it was blank it shows
\* =SUBTOTAL(109,first:last).
C28_SubtotalOnlyIfBlank ==
    (lastCall.op = "set_subtotal_if_empty" /\ lastCall.ret.data_rows # <<>>) =>
        LET before == lastCall.ret.ws
            occ == ColumnOf(before, "occ")
            first == SetMin(DataRowsOf(before))
            last == -SetMin({-r : r \in DataRowsOf(before)})
        IN IF is_blank(ShownAt(before, HEADER_ROW - 1, occ))
           THEN ShownAt(ws, HEADER_ROW - 1, occ)
                  = SubtotalFormulaOf(109, coordinate(first, occ), coordinate(last, occ))
           ELSE ws.cells = before.cells

\* the formulas the three steps have written: <<row, column>> of every cell
\* that holds a formula after the last step
WrittenFormulas(w) ==
    {rc \in DOMAIN w.cells : IsFormula(w.cells[rc])}

\* C29: after the three formula steps, every formula they wrote (chargeback
\* formulas, the two SUM totals, the SUBTOTAL(109,first:last) cell) is
\* displayed by the grid model as a number.
C29_SynthesizedFormulasDisplayAsNumbers ==
    lastCall.op = "set_subtotal_if_empty" =>
        \A rc \in WrittenFormulas(ws) :
            display_value(GridOver(ws), ws.cells[rc], rc[1], rc[2], MaxDepth).k = "num"

----------------------------------------------------------------------------
(* SUBTOTAL and merged blocks under a filter (specification SpecEval).     *)

\* C30: =SUBTOTAL(9,B4:B7) in B2 displays the sum of the contents of the
\* distinct canonical cells of B4:B7 whose own row the filter reports
\* visible: the merged block B5:B6 is counted if and only if its anchor row
\* 5 is visible, also when row 6 is visible and row 5 is not.
C30_BlockCountedIffAnchorRowVisible ==
    Shown(<<2, 2>>)
      = Num(SumOfContents({a \in DistinctCanonical(coordinate(4, 2), coordinate(7, 2)) :
                              RowVisible(a[1])}))
====
